---- MODULE Spec2Model ----
(***************************************************************************)
(* Project-Protector: PII detection, consensus, masking and restore.       *)
(* Text is a sequence of one-character strings; regular expressions are    *)
(* matched by a backtracking matcher with Python's priority order.         *)
(***************************************************************************)
EXTENDS Integers, Sequences, FiniteSets, TLC

(***************************************************************************)
(* Characters and character classes (re: \d, \w, \s, [A-Z], [a-z]).         *)
(***************************************************************************)
LowerSeq == <<"a","b","c","d","e","f","g","h","i","j","k","l","m",
              "n","o","p","q","r","s","t","u","v","w","x","y","z">>
UpperSeq == <<"A","B","C","D","E","F","G","H","I","J","K","L","M",
              "N","O","P","Q","R","S","T","U","V","W","X","Y","Z">>
DigitSeq == <<"0","1","2","3","4","5","6","7","8","9">>
Lower == {LowerSeq[i] : i \in 1..26}
Upper == {UpperSeq[i] : i \in 1..26}
Digit == {DigitSeq[i] : i \in 1..10}
Alpha == Lower \cup Upper
WordChar == Alpha \cup Digit \cup {"_"}
SpaceChar == {" ", "\t", "\n", "\r", "\f"}

LowerOf == [c \in Upper |-> LowerSeq[CHOOSE i \in 1..26 : UpperSeq[i] = c]]
UpperOf == [c \in Lower |-> UpperSeq[CHOOSE i \in 1..26 : LowerSeq[i] = c]]
DigitVal == [c \in Digit |-> (CHOOSE i \in 1..10 : DigitSeq[i] = c) - 1]

\* str.lower()
LowerChar(c) == IF c \in Upper THEN LowerOf[c] ELSE c
StrLower(s) == [i \in 1..Len(s) |-> LowerChar(s[i])]
\* str.upper()
UpperChar(c) == IF c \in Lower THEN UpperOf[c] ELSE c
StrUpper(s) == [i \in 1..Len(s) |-> UpperChar(s[i])]

\* str.strip(): leading and trailing whitespace removed
RECURSIVE LStrip(_)
LStrip(s) == IF s # <<>> /\ s[1] \in SpaceChar THEN LStrip(Tail(s)) ELSE s
RECURSIVE RStrip(_)
RStrip(s) ==
    IF s # <<>> /\ s[Len(s)] \in SpaceChar THEN RStrip(SubSeq(s, 1, Len(s) - 1)) ELSE s
StrStrip(s) == RStrip(LStrip(s))

\* str.isdigit() on a non-empty ASCII string
IsDigitStr(s) == s # <<>> /\ \A i \in 1..Len(s) : s[i] \in Digit

\* the concatenation of a sequence of strings
RECURSIVE Concat(_)
Concat(ss) == IF ss = <<>> THEN <<>> ELSE Head(ss) \o Concat(Tail(ss))

\* sep.join(ss)
RECURSIVE Join(_, _)
Join(sep, ss) ==
    IF ss = <<>> THEN <<>>
    ELSE IF Len(ss) = 1 THEN ss[1]
    ELSE ss[1] \o sep \o Join(sep, Tail(ss))

\* x in seq (list membership)
InSeq(x, seq) == \E i \in 1..Len(seq) : seq[i] = x

\* needle in hay (substring test); the empty string is in every string
IsSubstr(needle, hay) ==
    \E i \in 0..(Len(hay) - Len(needle)) : SubSeq(hay, i + 1, i + Len(needle)) = needle

(***************************************************************************)
(* Regular expressions.  An expression is a record; Ends(r, text, i) is    *)
(* the sequence of positions at which a match of r starting at position i  *)
(* (i characters consumed) can end, in the order in which a backtracking   *)
(* matcher tries them: greedy repetition first, alternatives left to right.*)
(***************************************************************************)
Unbounded == 0 - 1

RSet(S) == [t |-> "set", s |-> S]
RNot(S) == [t |-> "nset", s |-> S]
RLit(c) == [t |-> "set", s |-> {c}]
RWb == [t |-> "wb"]
RBos == [t |-> "bos"]
REos == [t |-> "eos"]
RCat(a) == [t |-> "cat", a |-> a]
RAlt(a) == [t |-> "alt", a |-> a]
RRep(r, lo, hi) == [t |-> "rep", r |-> r, lo |-> lo, hi |-> hi]
ROpt(r) == RRep(r, 0, 1)
RPlus(r) == RRep(r, 1, Unbounded)
RStar(r) == RRep(r, 0, Unbounded)
\* a literal string; under re.IGNORECASE when ci
RStr(s) == [t |-> "str", s |-> s, ci |-> FALSE]
RStrI(s) == [t |-> "str", s |-> s, ci |-> TRUE]

\* \b at position i of text
IsBoundary(text, i) ==
    LET before == i >= 1 /\ text[i] \in WordChar
        after == i < Len(text) /\ text[i + 1] \in WordChar
    IN before # after

\* a sequence without its repeated elements, first occurrences kept in order
Dedup(seq) ==
    LET keep == {j \in 1..Len(seq) : \A k \in 1..(j - 1) : seq[k] # seq[j]}
    IN [n \in 1..Cardinality(keep) |->
           seq[CHOOSE j \in keep : Cardinality({k \in keep : k < j}) = n - 1]]

\* the literal s (compared caseless when ci) at position i of text
StrEnds(s, ci, text, i) ==
    LET piece == SubSeq(text, i + 1, i + Len(s))
    IN IF i + Len(s) <= Len(text)
          /\ (IF ci THEN StrLower(piece) = StrLower(s) ELSE piece = s)
       THEN <<i + Len(s)>> ELSE <<>>

\* r is a single-character expression and c matches it
CharIn(r, c) == IF r.t = "set" THEN c \in r.s ELSE c \notin r.s

\* greedy repetition of a single-character expression: the longest run first
RunEnds(r, text, i) ==
    LET cap == IF r.hi = Unbounded THEN Len(text) - i
               ELSE IF r.hi < Len(text) - i THEN r.hi ELSE Len(text) - i
        runs_ok == {n \in 0..cap : \A j \in 1..n : CharIn(r.r, text[i + j])}
        run == CHOOSE n \in runs_ok : \A m \in runs_ok : m <= n
    IN IF run < r.lo THEN <<>> ELSE [j \in 1..(run - r.lo + 1) |-> i + run - j + 1]

RECURSIVE Ends(_, _, _)
RECURSIVE CatEnds(_, _, _, _)
RECURSIVE AltEnds(_, _, _, _)
RECURSIVE RepEnds(_, _, _, _)
RECURSIVE EachEnd(_, _, _, _)

Ends(r, text, i) ==
    CASE r.t = "set" -> IF i < Len(text) /\ text[i + 1] \in r.s THEN <<i + 1>> ELSE <<>>
      [] r.t = "nset" -> IF i < Len(text) /\ text[i + 1] \notin r.s THEN <<i + 1>> ELSE <<>>
      [] r.t = "str" -> StrEnds(r.s, r.ci, text, i)
      [] r.t = "wb" -> IF IsBoundary(text, i) THEN <<i>> ELSE <<>>
      [] r.t = "bos" -> IF i = 0 THEN <<i>> ELSE <<>>
      [] r.t = "eos" -> IF i = Len(text) THEN <<i>> ELSE <<>>
      [] r.t = "cat" -> CatEnds(r.a, 1, text, <<i>>)
      [] r.t = "alt" -> AltEnds(r.a, 1, text, i)
      [] r.t = "rep" -> IF r.r.t \in {"set", "nset"} THEN RunEnds(r, text, i)
                        ELSE RepEnds(r, 0, text, i)

\* the components a[k..] matched one after the other from each of the starts
CatEnds(a, k, text, starts) ==
    IF k > Len(a) \/ starts = <<>> THEN starts
    ELSE CatEnds(a, k + 1, text, Dedup(EachEnd(a[k], text, starts, 1)))

\* Ends(r, text, s) for each start s, in order
EachEnd(r, text, starts, j) ==
    IF j > Len(starts) THEN <<>>
    ELSE Ends(r, text, starts[j]) \o EachEnd(r, text, starts, j + 1)

AltEnds(a, k, text, i) ==
    IF k > Len(a) THEN <<>> ELSE Ends(a[k], text, i) \o AltEnds(a, k + 1, text, i)

\* greedy repetition: after k iterations at position i, more iterations are
\* tried before stopping here; an iteration that consumes nothing is not repeated
RepEnds(r, k, text, i) ==
    LET step == IF r.hi = k THEN <<>>
                ELSE SelectSeq(Ends(r.r, text, i), LAMBDA e : e > i)
        more == Concat([j \in 1..Len(step) |-> RepEnds(r, k + 1, text, step[j])])
        here == IF k >= r.lo THEN <<i>> ELSE <<>>
    IN Dedup(more \o here)

\* the positions at which a match of r starts
MatchStarts(r, text) == {p \in 0..Len(text) : Ends(r, text, p) # <<>>}

\* re.search from position pos on: <<start, end>> of the leftmost match, or <<>>
SearchIn(r, text, starts, pos) ==
    LET rest == {p \in starts : p >= pos}
        s == CHOOSE p \in rest : \A q \in rest : p <= q
    IN IF rest = {} THEN <<>> ELSE <<s, Ends(r, text, s)[1]>>
SearchFrom(r, text, pos) == SearchIn(r, text, MatchStarts(r, text), pos)

\* the spans <<start, end>> of the non-overlapping matches, left to right
RECURSIVE SpansFrom(_, _, _, _)
SpansFrom(r, text, starts, pos) ==
    LET m == SearchIn(r, text, starts, pos)
    IN IF m = <<>> THEN <<>>
       ELSE <<m>> \o SpansFrom(r, text, starts, IF m[2] = m[1] THEN m[2] + 1 ELSE m[2])
MatchSpans(r, text, pos) == SpansFrom(r, text, MatchStarts(r, text), pos)

\* re.findall(r, text) for a pattern whose result is the whole match
FindAll(r, text) ==
    LET spans == MatchSpans(r, text, 0)
    IN [j \in 1..Len(spans) |-> SubSeq(text, spans[j][1] + 1, spans[j][2])]

\* re.match(r, text): r carries its own ^ and $
ReMatch(r, text) == Ends(r, text, 0) # <<>>

\* re.sub(r, repl, text) with a replacement free of escapes
RECURSIVE SubSpans(_, _, _, _)
SubSpans(text, spans, repl, from) ==
    IF spans = <<>> THEN SubSeq(text, from + 1, Len(text))
    ELSE SubSeq(text, from + 1, spans[1][1]) \o repl
         \o SubSpans(text, Tail(spans), repl, spans[1][2])
ReSub(r, repl, text) == SubSpans(text, MatchSpans(r, text, 0), repl, 0)

\* re.split(r, text) for r = one capturing group around the whole pattern:
\* text pieces at the odd positions, matches at the even positions
RECURSIVE SplitSpans(_, _, _)
SplitSpans(text, spans, from) ==
    IF spans = <<>> THEN <<SubSeq(text, from + 1, Len(text))>>
    ELSE <<SubSeq(text, from + 1, spans[1][1]), SubSeq(text, spans[1][1] + 1, spans[1][2])>>
         \o SplitSpans(text, Tail(spans), spans[1][2])
ReSplit(r, text) == SplitSpans(text, MatchSpans(r, text, 0), 0)

\* str.replace(old, new): every non-overlapping occurrence, left to right
StrReplace(text, old, new) == ReSub(RStr(old), new, text)

(***************************************************************************)
(* Rule extractors (pii_main.py).  Each is re.findall of its patterns, in  *)
(* order, followed by the extractor's own validation.                      *)
(***************************************************************************)
RD == RSet(Digit)
RDn(lo, hi) == RRep(RD, lo, hi)
RSp == RSet(SpaceChar)
\* [-\s]?
RDashSp == ROpt(RSet({"-"} \cup SpaceChar))
RW == RSet(WordChar)
\* [A-Za-z\s]+
RAlphaSp == RPlus(RSet(Alpha \cup SpaceChar))

\* re.sub(r'[-\s]', '', s)
StripDashSp(s) == SelectSeq(s, LAMBDA c : c \notin ({"-"} \cup SpaceChar))

\* int(s) for a digit string short enough not to overflow
RECURSIVE IntOf(_)
IntOf(s) == IF s = <<>> THEN 0 ELSE 10 * IntOf(SubSeq(s, 1, Len(s) - 1)) + DigitVal[s[Len(s)]]

StartsWith(s, p) == Len(s) >= Len(p) /\ SubSeq(s, 1, Len(p)) = p
EndsWith(s, p) == Len(s) >= Len(p) /\ SubSeq(s, Len(s) - Len(p) + 1, Len(s)) = p

\* the results of the patterns of one extractor, one pattern after the other
FindAllOf(patterns, text) == Concat([k \in 1..Len(patterns) |-> FindAll(patterns[k], text)])

IsLeap(y) == y % 4 = 0 /\ (y % 100 # 0 \/ y % 400 = 0)
DaysIn(y, m) ==
    IF m = 2 THEN (IF IsLeap(y) THEN 29 ELSE 28)
    ELSE IF m \in {4, 6, 9, 11} THEN 30 ELSE 31

validate_malaysian_ic(ic) ==
    /\ Len(ic) = 12
    /\ IsDigitStr(ic)
    /\ LET year == IntOf(SubSeq(ic, 1, 2))
           month == IntOf(SubSeq(ic, 3, 4))
           day == IntOf(SubSeq(ic, 5, 6))
           full_year == IF year <= 30 THEN 2000 + year ELSE 1900 + year
       IN month \in 1..12 /\ day >= 1 /\ day <= DaysIn(full_year, month)

IcPatterns ==
    << RCat(<<RWb, RDn(6, 6), RLit("-"), RDn(2, 2), RLit("-"), RDn(4, 4), RWb>>),
       RCat(<<RWb, RDn(12, 12), RWb>>),
       RCat(<<RWb, RDn(6, 6), RSp, RDn(2, 2), RSp, RDn(4, 4), RWb>>) >>

extract_ic(text) ==
    SelectSeq(FindAllOf(IcPatterns, text),
              LAMBDA m : Len(StripDashSp(m)) = 12 /\ validate_malaysian_ic(StripDashSp(m)))

EmailPattern ==
    RCat(<<RWb, RPlus(RSet(Alpha \cup Digit \cup {".", "_", "%", "+", "-"})), RLit("@"),
           RPlus(RSet(Alpha \cup Digit \cup {".", "-"})), RLit("."),
           RRep(RSet(Alpha \cup {"|"}), 2, Unbounded), RWb>>)

extract_email(text) == FindAll(EmailPattern, text)

DobPatterns ==
    << RCat(<<RWb, RDn(1, 2), RLit("/"), RDn(1, 2), RLit("/"), RDn(4, 4), RWb>>),
       RCat(<<RWb, RDn(1, 2), RLit("-"), RDn(1, 2), RLit("-"), RDn(4, 4), RWb>>),
       RCat(<<RWb, RDn(4, 4), RLit("-"), RDn(1, 2), RLit("-"), RDn(1, 2), RWb>>),
       RCat(<<RWb, RDn(1, 2), RPlus(RSp), RPlus(RW), RPlus(RSp), RDn(4, 4), RWb>>) >>

extract_dob(text) == FindAllOf(DobPatterns, text)

is_phone_number(number_str) ==
    LET clean_num == StripDashSp(number_str)
    IN /\ Len(clean_num) \in {10, 11, 12}
       /\ (StartsWith(clean_num, <<"0", "1">>) \/ StartsWith(clean_num, <<"0", "3">>))

BankPatterns ==
    << RCat(<<RWb, RDn(10, 16), RWb>>),
       RCat(<<RWb, RDn(4, 4), RDashSp, RDn(4, 4), RDashSp, RDn(4, 8), RWb>>) >>

extract_bank_account(text) ==
    SelectSeq(FindAllOf(BankPatterns, text),
              LAMBDA m : /\ Len(StripDashSp(m)) >= 10
                         /\ Len(StripDashSp(m)) <= 16
                         /\ ~is_phone_number(StripDashSp(m)))

MobilePatterns ==
    << RCat(<<RBos, RLit("0"), RLit("1"), RD, RDn(7, 8), REos>>),
       RCat(<<RBos, RLit("0"), RLit("3"), RDn(8, 8), REos>>),
       RCat(<<RBos, RLit("0"), RSet({"4", "5", "6", "7", "8", "9"}), RDn(7, 8), REos>>) >>

validate_phone_number(phone) ==
    LET stripped == SelectSeq(phone, LAMBDA c : c \notin (SpaceChar \cup {"+", "-"}))
        clean_phone == IF StartsWith(stripped, <<"6", "0">>)
                       THEN SubSeq(stripped, 3, Len(stripped)) ELSE stripped
    IN \E k \in 1..Len(MobilePatterns) : ReMatch(MobilePatterns[k], clean_phone)

PhonePatterns ==
    << RCat(<<RLit("+"), RLit("6"), RLit("0"), RDn(1, 2), RDashSp, RDn(7, 8)>>),
       RCat(<<RWb, RLit("0"), RLit("1"), RD, RDashSp, RDn(7, 8), RWb>>),
       RCat(<<RWb, RLit("0"), RLit("3"), RDashSp, RDn(8, 8), RWb>>),
       RCat(<<RWb, RLit("0"), RSet({"4", "5", "6", "7", "8", "9"}), RD, RDashSp, RDn(7, 7), RWb>>),
       RCat(<<RWb, RDn(3, 3), RDashSp, RDn(7, 8), RWb>>) >>

extract_phone(text) == SelectSeq(FindAllOf(PhonePatterns, text), validate_phone_number)

MoneyPattern ==
    RCat(<<RWb,
           RAlt(<<RCat(<<RDn(1, 3), RPlus(RCat(<<RLit(","), RDn(3, 3)>>))>>), RPlus(RD)>>),
           ROpt(RCat(<<RLit("."), RDn(1, 2)>>)), RWb>>)

\* 0.01 <= float(match without commas) <= 10_000_000, by digits to stay in range
MoneyInRange(match) ==
    LET normalized == SelectSeq(match, LAMBDA c : c # ",")
        dot == IF InSeq(".", normalized)
               THEN CHOOSE i \in 1..Len(normalized) : normalized[i] = "."
               ELSE Len(normalized) + 1
        int_digits == SubSeq(normalized, 1, dot - 1)
        frac_digits == SubSeq(normalized, dot + 1, Len(normalized))
        frac_zero == \A i \in 1..Len(frac_digits) : frac_digits[i] = "0"
        RECURSIVE NoLeadingZeros(_)
        NoLeadingZeros(d) == IF d # <<>> /\ d[1] = "0" THEN NoLeadingZeros(Tail(d)) ELSE d
        significant == NoLeadingZeros(int_digits)
    IN /\ (significant # <<>> \/ ~frac_zero)
       /\ \/ Len(significant) < 8
          \/ Len(significant) = 8 /\ IntOf(significant) < 10000000
          \/ Len(significant) = 8 /\ IntOf(significant) = 10000000 /\ frac_zero

\* the matches in range, each once (the extractor's own seen set)
extract_money(text) == Dedup(SelectSeq(FindAll(MoneyPattern, text), MoneyInRange))

GenderPattern ==
    RCat(<<RWb, RAlt(<<RStrI(<<"L","E","L","A","K","I">>), RStrI(<<"P","E","R","E","M","P","U","A","N">>),
                        RStrI(<<"M","A","L","E">>), RStrI(<<"F","E","M","A","L","E">>)>>), RWb>>)

extract_gender(text) == FindAll(GenderPattern, text)

NationalityPattern ==
    RCat(<<RWb, RAlt(<<RStrI(<<"W","A","R","G","A","N","E","G","A","R","A">>),
                        RStrI(<<"W","A","R","G","A"," ","A","S","I","N","G">>),
                        RStrI(<<"C","I","T","I","Z","E","N">>),
                        RStrI(<<"N","O","N","-","C","I","T","I","Z","E","N">>)>>), RWb>>)

extract_nationality(text) == FindAll(NationalityPattern, text)

PassportPatterns ==
    << RCat(<<RWb, RSet(Upper), RDn(7, 8), RWb>>),
       RCat(<<RWb, RRep(RSet(Upper), 1, 2), RDn(6, 7), RWb>>),
       RCat(<<RWb, RDn(8, 9), RSet(Upper), RWb>>) >>

extract_passport(text) == FindAllOf(PassportPatterns, text)

\* sum of the decimal digits of n, for n < 100
DigitSum(n) == (n \div 10) + (n % 10)

\* the Luhn checksum of a digit string is 0
validate_credit_card(cc) ==
    LET n == Len(cc)
        odd_sum == LET RECURSIVE S(_)
                       S(i) == IF i < 1 THEN 0 ELSE DigitVal[cc[i]] + S(i - 2)
                   IN S(n)
        even_sum == LET RECURSIVE T(_)
                        T(i) == IF i < 1 THEN 0 ELSE DigitSum(2 * DigitVal[cc[i]]) + T(i - 2)
                    IN T(n - 1)
    IN (odd_sum + even_sum) % 10 = 0

CardPatterns ==
    << RCat(<<RWb, RLit("4"), RDn(3, 3), RDashSp, RDn(4, 4), RDashSp, RDn(4, 4), RDashSp,
              RDn(4, 4), RWb>>),
       RCat(<<RWb, RLit("5"), RSet({"1", "2", "3", "4", "5"}), RDn(2, 2), RDashSp, RDn(4, 4),
              RDashSp, RDn(4, 4), RDashSp, RDn(4, 4), RWb>>),
       RCat(<<RWb, RLit("3"), RSet({"4", "7"}), RDn(2, 2), RDashSp, RDn(6, 6), RDashSp,
              RDn(5, 5), RWb>>),
       RCat(<<RWb, RLit("6"),
              RAlt(<<RStr(<<"0", "1", "1">>), RCat(<<RLit("5"), RDn(2, 2)>>)>>),
              RDashSp, RDn(4, 4), RDashSp, RDn(4, 4), RDashSp, RDn(4, 4), RWb>>) >>

extract_credit_card(text) ==
    SelectSeq(FindAllOf(CardPatterns, text), LAMBDA m : validate_credit_card(StripDashSp(m)))

AddressPatterns ==
    << RCat(<<RWb, RPlus(RD), ROpt(RSet(Alpha)), ROpt(RLit(",")), RPlus(RSp), RAlphaSp,
              RLit(","), RStar(RSp), RDn(5, 5), RPlus(RSp), RAlphaSp, RWb>>),
       RCat(<<RWb, RAlphaSp, RLit(","), RStar(RSp), RDn(5, 5), RPlus(RSp), RAlphaSp,
              RLit(","), RStar(RSp), RAlphaSp, RWb>>),
       RCat(<<RWb, RLit("N"), RLit("o"), ROpt(RLit(".")), RStar(RSp), RPlus(RD),
              ROpt(RSet(Alpha)), ROpt(RLit(",")), RPlus(RSp), RAlphaSp, RLit(","),
              RStar(RSp), RDn(5, 5), RWb>>) >>

extract_malaysian_address(text) == FindAllOf(AddressPatterns, text)

PlatePatterns ==
    << RCat(<<RBos, RRep(RSet(Upper), 1, 3), RDn(1, 4), ROpt(RSet(Upper)), REos>>),
       RCat(<<RBos, RRep(RSet(Upper), 2, 2), RDn(4, 4), RSet(Upper), REos>>) >>

validate_vehicle_plate(plate) ==
    LET clean_plate == SelectSeq(StrUpper(plate), LAMBDA c : c \notin SpaceChar)
    IN \E k \in 1..Len(PlatePatterns) : ReMatch(PlatePatterns[k], clean_plate)

VehiclePatterns ==
    << RCat(<<RWb, RRep(RSet(Upper), 1, 3), ROpt(RSp), RDn(1, 4), ROpt(RSp),
              ROpt(RSet(Upper)), RWb>>),
       RCat(<<RWb, RRep(RSet(Upper), 2, 2), RDn(4, 4), RSet(Upper), RWb>>) >>

extract_vehicle_registration(text) ==
    SelectSeq(FindAllOf(VehiclePatterns, text), validate_vehicle_plate)

\* <<label, match.strip()>> for every match of one extractor
Labelled(label, matches) == [k \in 1..Len(matches) |-> <<label, StrStrip(matches[k])>>]

\* step 2 of extract_all_pii: the extractors in the order of the dict
RuleResults(text) ==
    Labelled("IC", extract_ic(text))
    \o Labelled("Email", extract_email(text))
    \o Labelled("DOB", extract_dob(text))
    \o Labelled("Bank Account", extract_bank_account(text))
    \o Labelled("Passport", extract_passport(text))
    \o Labelled("Phone", extract_phone(text))
    \o Labelled("Money", extract_money(text))
    \o Labelled("Gender", extract_gender(text))
    \o Labelled("Nationality", extract_nationality(text))
    \o Labelled("Credit Card", extract_credit_card(text))
    \o Labelled("Address", extract_malaysian_address(text))
    \o Labelled("Vehicle Registration", extract_vehicle_registration(text))

(***************************************************************************)
(* Categories, dictionaries, consensus and the ignore list (pii_main.py).  *)
(***************************************************************************)
SELECTABLE_PII_CATEGORIES == {"NAMES", "RACES", "ORG_NAMES", "STATUS", "LOCATIONS", "RELIGIONS"}

NON_SELECTABLE_PII_CATEGORIES ==
    {"IC", "Email", "DOB", "Bank Account", "Passport", "Phone", "Money", "Credit Card",
     "Address", "Vehicle Registration"}

\* app/resources/dictionaries.py: the word lists, in list order
NAMES == <<>>
ORG_NAMES == <<>>
RACES == <<>>
STATUS == <<>>
LOCATIONS == << <<"P","e","r","a","k">> >>
RELIGIONS == <<>>

\* the entries found as whole words of the lowered text (re.search with \b on both sides)
WordMatches(label, words, text_lower) ==
    Labelled(label,
             SelectSeq(words, LAMBDA w :
                 /\ IsSubstr(StrLower(w), text_lower)
                 /\ SearchFrom(RCat(<<RWb, RStr(StrLower(w)), RWb>>), text_lower, 0) # <<>>))

\* locations match as plain substrings
SubstrMatches(label, words, text_lower) ==
    Labelled(label, SelectSeq(words, LAMBDA w : IsSubstr(StrLower(w), text_lower)))

extract_from_dictionaries(text, enabled_categories) ==
    LET text_lower == StrLower(text)
        On(cat, found) == IF cat \in enabled_categories THEN found ELSE <<>>
    IN On("NAMES", WordMatches("NAMES", NAMES, text_lower))
       \o On("ORG_NAMES", WordMatches("ORG_NAMES", ORG_NAMES, text_lower))
       \o On("RACES", WordMatches("RACES", RACES, text_lower))
       \o On("STATUS", WordMatches("STATUS", STATUS, text_lower))
       \o On("LOCATIONS", SubstrMatches("LOCATIONS", LOCATIONS, text_lower))
       \o On("RELIGIONS", WordMatches("RELIGIONS", RELIGIONS, text_lower))

\* value.strip().lower()
Normalized(value) == StrLower(StrStrip(value))

\* the label chosen among the candidates of one normalized value: one vote per
\* candidate, +2 if the language model proposed the label, +1 if a rule did;
\* the first label with the highest score wins
BestLabel(candidates, presidio_results, chatgpt_results) ==
    LET labels == Dedup([i \in 1..Len(candidates) |-> candidates[i][1]])
        Sources(l) ==
            {IF InSeq(candidates[i], chatgpt_results) THEN "ChatGPT"
             ELSE IF InSeq(candidates[i], presidio_results) THEN "Presidio" ELSE "NER" :
                 i \in {j \in 1..Len(candidates) : candidates[j][1] = l}}
        Score(l) ==
            Cardinality({j \in 1..Len(candidates) : candidates[j][1] = l})
            + (IF "ChatGPT" \in Sources(l) THEN 2 ELSE 0)
            + (IF "Presidio" \in Sources(l) THEN 1 ELSE 0)
        best == CHOOSE i \in 1..Len(labels) :
                    /\ \A j \in 1..Len(labels) : Score(labels[j]) <= Score(labels[i])
                    /\ \A j \in 1..(i - 1) : Score(labels[j]) < Score(labels[i])
    IN labels[best]

\* the candidates of all detectors one after the other, nothing merged
concat_pii_results(presidio_results, ner_results, chatgpt_results) ==
    presidio_results \o ner_results \o chatgpt_results

combine_pii_results(presidio_results, ner_results, chatgpt_results) ==
    LET all_results == presidio_results \o ner_results \o chatgpt_results
        keys == Dedup([i \in 1..Len(all_results) |-> Normalized(all_results[i][2])])
        Group(k) == SelectSeq(all_results, LAMBDA c : Normalized(c[2]) = k)
        Final(candidates) ==
            IF Len(candidates) = 1 THEN candidates[1]
            ELSE LET best_label == BestLabel(candidates, presidio_results, chatgpt_results)
                     first == CHOOSE i \in 1..Len(candidates) :
                                  /\ candidates[i][1] = best_label
                                  /\ \A j \in 1..(i - 1) : candidates[j][1] # best_label
                 IN <<best_label, candidates[first][2]>>
    IN [k \in 1..Len(keys) |-> Final(Group(keys[k]))]

IGNORE_WORDS ==
    { <<"m","a","l","a","y","s","i","a">>,
      <<"m","y","k","a","d">>,
      <<"i","d","e","n","t","i","t","y">>,
      <<"c","a","r","d">>,
      <<"k","a","d">>,
      <<"p","e","n","g","e","n","a","l","a","n">>,
      <<"w","a","r","g","a","n","e","g","a","r","a">>,
      <<"l","e","l","a","k","i">>,
      <<"p","e","r","e","m","p","u","a","n">>,
      <<"b","u","j","a","n","g">>,
      <<"k","a","w","i","n">>,
      <<"l","e","l">>,
      <<"p","e","r">>,
      <<"m","a","l","e">>,
      <<"f","e","m","a","l","e">>,
      <<"c","i","t","i","z","e","n">>,
      <<"n","o","t"," ","c","i","t","i","z","e","n">> }

\* the test of the stage filter: clean_val in IGNORE_WORDS
InIgnoreWords(clean_val) == clean_val \in IGNORE_WORDS

\* extract_all_pii, stage filter: empty and ignored values skipped, one entry per
\* normalized value, the value kept stripped in its original case
RECURSIVE StageFilter(_, _)
StageFilter(results, seen) ==
    IF results = <<>> THEN <<>>
    ELSE LET clean_val == Normalized(results[1][2])
         IN IF clean_val = <<>> \/ InIgnoreWords(clean_val) \/ clean_val \in seen
            THEN StageFilter(Tail(results), seen)
            ELSE << <<results[1][1], StrStrip(results[1][2])>> >>
                 \o StageFilter(Tail(results), seen \cup {clean_val})

\* the rule and dictionary results of extract_all_pii
PresidioRegexResults(text, enabled_categories) ==
    RuleResults(text) \o extract_from_dictionaries(text, enabled_categories)

\* the language model is asked only for a text of 20 characters or more
MinChatGptLen == 20
ChatGptResults(text, chatgpt_on, chatgpt_raw) ==
    IF chatgpt_on /\ Len(StrStrip(text)) >= MinChatGptLen THEN chatgpt_raw ELSE <<>>

Stage1Results(text, enabled_categories, ner_results, chatgpt_on, chatgpt_raw) ==
    combine_pii_results(PresidioRegexResults(text, enabled_categories), ner_results,
                        ChatGptResults(text, chatgpt_on, chatgpt_raw))

\* extract_all_pii with the outputs of the two learned detectors as inputs; the
\* validation stage leaves the result of the stage filter as it is
extract_all_pii(text, enabled_categories, ner_results, chatgpt_on, chatgpt_raw) ==
    StageFilter(Stage1Results(text, enabled_categories, ner_results, chatgpt_on, chatgpt_raw),
                {})

(***************************************************************************)
(* Text masking (text_processor.py) and text restore (decrypt_text.py).    *)
(***************************************************************************)
\* the first eight hexadecimal digits of the MD5 digests of the values that occur
Md5Table ==
    <<"1","4">> :> <<"a","a","b","3","2","3","8","9">> @@
    <<"1","4","A","@","b",".","m","y">> :> <<"d","5","7","0","3","b","2","5">> @@
    <<"4">> :> <<"a","8","7","f","f","6","7","9">> @@
    <<"9","1","1","1","1","1","1","1","1","1","1","1">> :> <<"8","1","4","6","2","2","7","e">> @@
    <<"9","1","1","1","1","1","1","1","1","1","1","1","A","@","b",".","m","y">> :> <<"9","3","2","5","a","9","d","d">> @@
    <<"A","@","b",".","m","y">> :> <<"e","6","2","1","b","b","2","b">> @@
    <<"A","@","b",".","m","y","A">> :> <<"5","1","a","4","c","e","0","3">> @@
    <<"A","@","b",".","m","y","I","C">> :> <<"5","2","a","0","0","2","4","9">> @@
    <<"A","@","b",".","m","y","P","e","r","a","k">> :> <<"c","b","3","f","d","0","1","d">> @@
    <<"A","l","i">> :> <<"7","a","9","b","4","6","a","b">> @@
    <<"M","a","l","e">> :> <<"6","3","8","8","9","c","f","b">> @@
    <<"P","e","r","a","k">> :> <<"6","f","7","e","8","7","a","9">> @@
    <<"P","e","r","a","k","A","@","b",".","m","y">> :> <<"1","d","8","8","1","8","5","a">> @@
    <<"a","@","b",".","m","y">> :> <<"b","6","9","f","6","f","5","8">> @@
    <<"a","@","b",".","m","y","A">> :> <<"a","0","b","4","a","8","a","c">> @@
    <<"a","@","b",".","m","y","I","C">> :> <<"7","6","f","d","0","f","d","4">> @@
    <<"a","@","b",".","m","y","P","e","r","a","k">> :> <<"9","6","e","e","f","2","7","d">> @@
    <<"m","a","l","e">> :> <<"0","7","c","f","4","f","8","f">> @@
    <<"m","a","l","e","A","@","b",".","m","y">> :> <<"f","0","1","b","1","6","8","9">> @@
    <<"p","e","r">> :> <<"f","e","3","8","3","8","c","7">> @@
    <<"p","e","r","a","k">> :> <<"8","2","3","9","b","6","5","a">>

\* the characters of a label, for f"[ENC:{label}_{value_hash}]"
LabelChars ==
    "IC" :> <<"I","C">> @@
    "Email" :> <<"E","m","a","i","l">> @@
    "DOB" :> <<"D","O","B">> @@
    "Bank Account" :> <<"B","a","n","k"," ","A","c","c","o","u","n","t">> @@
    "Passport" :> <<"P","a","s","s","p","o","r","t">> @@
    "Phone" :> <<"P","h","o","n","e">> @@
    "Money" :> <<"M","o","n","e","y">> @@
    "Gender" :> <<"G","e","n","d","e","r">> @@
    "Nationality" :> <<"N","a","t","i","o","n","a","l","i","t","y">> @@
    "Credit Card" :> <<"C","r","e","d","i","t"," ","C","a","r","d">> @@
    "Address" :> <<"A","d","d","r","e","s","s">> @@
    "Vehicle Registration" :> <<"V","e","h","i","c","l","e"," ","R","e","g","i","s","t","r","a","t","i","o","n">> @@
    "NAMES" :> <<"N","A","M","E","S">> @@
    "RACES" :> <<"R","A","C","E","S">> @@
    "ORG_NAMES" :> <<"O","R","G","_","N","A","M","E","S">> @@
    "STATUS" :> <<"S","T","A","T","U","S">> @@
    "LOCATIONS" :> <<"L","O","C","A","T","I","O","N","S">> @@
    "RELIGIONS" :> <<"R","E","L","I","G","I","O","N","S">> @@
    "PER" :> <<"P","E","R">> @@
    "LOC" :> <<"L","O","C">> @@
    "ORG" :> <<"O","R","G">>

\* hashlib.md5(value.encode()).hexdigest()[:8]
Md5Hex8(value) == Md5Table[value]

UniqueTag(label, value) ==
    <<"[", "E", "N", "C", ":">> \o LabelChars[label] \o <<"_">> \o Md5Hex8(value) \o <<"]">>

\* Fernet: a token is opaque without its key
encrypt_fernet(value, key) == [key |-> key, plain |-> value]

\* a mapping whose tags are cut from the ciphertexts instead of the hashes of the values
RECURSIVE BuildMappingCipherTags(_, _, _)
BuildMappingCipherTags(all_pii_list, key, done) ==
    IF all_pii_list = <<>> THEN <<>>
    ELSE LET label == all_pii_list[1][1]
             value == all_pii_list[1][2]
         IN IF value \in done THEN BuildMappingCipherTags(Tail(all_pii_list), key, done)
            ELSE << [original |-> value, encrypted |-> encrypt_fernet(value, key),
                     label |-> label,
                     masked |-> <<"[", "E", "N", "C", ":">> \o LabelChars[label] \o <<"_">>
                                \o <<DigitSeq[key + 1]>> \o SubSeq(Md5Hex8(value), 1, 7)
                                \o <<"]">>] >>
                 \o BuildMappingCipherTags(Tail(all_pii_list), key, done \cup {value})

\* the mapping built from the list of detections: one record per distinct value
RECURSIVE BuildMapping(_, _, _)
BuildMapping(all_pii_list, key, done) ==
    IF all_pii_list = <<>> THEN <<>>
    ELSE LET label == all_pii_list[1][1]
             value == all_pii_list[1][2]
         IN IF value \in done THEN BuildMapping(Tail(all_pii_list), key, done)
            ELSE << [original |-> value, encrypted |-> encrypt_fernet(value, key),
                     label |-> label, masked |-> UniqueTag(label, value)] >>
                 \o BuildMapping(Tail(all_pii_list), key, done \cup {value})

\* sorted(items, key=len(field), reverse=True): stable, longest first
RECURSIVE SortByLenDesc(_, _)
SortByLenDesc(items, lens) ==
    IF items = <<>> THEN <<>>
    ELSE LET longest == CHOOSE i \in 1..Len(items) :
                 /\ \A j \in 1..Len(items) : lens[j] <= lens[i]
                 /\ \A j \in 1..(i - 1) : lens[j] < lens[i]
             Without(seq) == [j \in 1..(Len(seq) - 1) |-> IF j < longest THEN seq[j] ELSE seq[j + 1]]
         IN <<items[longest]>> \o SortByLenDesc(Without(items), Without(lens))

\* r'(\[ENC:[^\]]+\])'
TagPattern ==
    RCat(<<RLit("["), RLit("E"), RLit("N"), RLit("C"), RLit(":"), RPlus(RNot({"]"})), RLit("]")>>)

\* the pattern of one value: \b on both sides of a single digit, else the escaped value
ValuePattern(pii_value) ==
    IF Len(pii_value) = 1 /\ IsDigitStr(pii_value)
    THEN RCat(<<RWb, RStr(pii_value), RWb>>)
    ELSE RStr(pii_value)

\* re.sub of the value in one part of the split text; tag parts are left alone
SubstituteInPart(part, is_text_part, pii_value, tag) ==
    IF is_text_part /\ ~StartsWith(part, <<"[", "E", "N", "C", ":">>)
    THEN ReSub(ValuePattern(pii_value), tag, part)
    ELSE part

\* one value replaced by its tag outside the tags already in the text
MaskOneValue(masked_text, pii_value, tag) ==
    LET parts == ReSplit(TagPattern, masked_text)
    IN Concat([i \in 1..Len(parts) |->
                  SubstituteInPart(parts[i], i % 2 = 1, pii_value, tag)])

\* the text after the first k values of the sorted list have been replaced
RECURSIVE MaskValues(_, _, _)
MaskValues(content, sorted_pii_items, k) ==
    IF k = 0 THEN content
    ELSE MaskOneValue(MaskValues(content, sorted_pii_items, k - 1),
                      sorted_pii_items[k].original, sorted_pii_items[k].masked)

\* the masked text of process_text_optimized for a mapping
MaskText(content, mapping) ==
    MaskValues(content,
               SortByLenDesc(mapping, [i \in 1..Len(mapping) |-> Len(mapping[i].original)]),
               Len(mapping))

\* open(path, "r"): universal newlines, "\r\n" and "\r" read as "\n"
RECURSIVE ReadText(_)
ReadText(bytes) ==
    IF bytes = <<>> THEN <<>>
    ELSE IF bytes[1] = "\r"
         THEN <<"\n">> \o ReadText(IF Len(bytes) >= 2 /\ bytes[2] = "\n"
                                  THEN SubSeq(bytes, 3, Len(bytes)) ELSE Tail(bytes))
         ELSE <<bytes[1]>> \o ReadText(Tail(bytes))

\* open(path, "w").write(text): "\n" written as os.linesep
WriteText(text, linesep) ==
    Concat([i \in 1..Len(text) |-> IF text[i] = "\n" THEN linesep ELSE <<text[i]>>])

\* json.dump of a string: quote, backslash and control characters escaped
JsonEscapeChar(c) ==
    CASE c = "\"" -> <<"\\", "\"">>
      [] c = "\\" -> <<"\\", "\\">>
      [] c = "\n" -> <<"\\", "n">>
      [] c = "\r" -> <<"\\", "r">>
      [] c = "\t" -> <<"\\", "t">>
      [] c = "\f" -> <<"\\", "f">>
      [] OTHER -> <<c>>
JsonEscape(s) == Concat([i \in 1..Len(s) |-> JsonEscapeChar(s[i])])

\* json.load of a string literal
RECURSIVE JsonUnescape(_)
JsonUnescape(s) ==
    IF s = <<>> THEN <<>>
    ELSE IF s[1] = "\\" /\ Len(s) >= 2
         THEN << CASE s[2] = "n" -> "\n"
                   [] s[2] = "r" -> "\r"
                   [] s[2] = "t" -> "\t"
                   [] s[2] = "f" -> "\f"
                   [] OTHER -> s[2] >> \o JsonUnescape(SubSeq(s, 3, Len(s)))
         ELSE <<s[1]>> \o JsonUnescape(Tail(s))

\* the mapping file as json.dump writes it and json.load reads it
JsonDump(mapping) ==
    [i \in 1..Len(mapping) |->
        [original |-> JsonEscape(mapping[i].original), encrypted |-> mapping[i].encrypted,
         label |-> mapping[i].label, masked |-> JsonEscape(mapping[i].masked)]]
JsonLoad(json) ==
    [i \in 1..Len(json) |->
        [original |-> JsonUnescape(json[i].original), encrypted |-> json[i].encrypted,
         label |-> json[i].label, masked |-> JsonUnescape(json[i].masked)]]

\* decrypt_masked_file, .txt branch: every tag replaced by the original of its
\* record, longest tag first
RECURSIVE ReplaceTags(_, _, _)
ReplaceTags(masked_content, sorted_entries, k) ==
    IF k = 0 THEN masked_content
    ELSE StrReplace(ReplaceTags(masked_content, sorted_entries, k - 1),
                    sorted_entries[k].masked, sorted_entries[k].original)

RestoreText(masked_content, mapping_data) ==
    ReplaceTags(masked_content,
                SortByLenDesc(mapping_data,
                              [i \in 1..Len(mapping_data) |-> Len(mapping_data[i].masked)]),
                Len(mapping_data))

(***************************************************************************)
(* Image masking (mask_sensitive_text).  An image is what OCR reads in it  *)
(* and where, and the regions painted black.                               *)
(***************************************************************************)
SetMin(S) == CHOOSE x \in S : \A y \in S : x <= y
SetMax(S) == CHOOSE x \in S : \A y \in S : y <= x

\* a bounding box is its four corner points, as EasyOCR returns it
Bbox(x_min, y_min, x_max, y_max) ==
    << <<x_min, y_min>>, <<x_max, y_min>>, <<x_max, y_max>>, <<x_min, y_max>> >>
XMin(bbox) == SetMin({bbox[k][1] : k \in 1..Len(bbox)})
XMax(bbox) == SetMax({bbox[k][1] : k \in 1..Len(bbox)})
YMin(bbox) == SetMin({bbox[k][2] : k \in 1..Len(bbox)})
YMax(bbox) == SetMax({bbox[k][2] : k \in 1..Len(bbox)})

\* intersection over union of two boxes, as the fraction num / den
iou(bbox1, bbox2) ==
    LET inter_x_min == SetMax({XMin(bbox1), XMin(bbox2)})
        inter_y_min == SetMax({YMin(bbox1), YMin(bbox2)})
        inter_x_max == SetMin({XMax(bbox1), XMax(bbox2)})
        inter_y_max == SetMin({YMax(bbox1), YMax(bbox2)})
        inter_area == (inter_x_max - inter_x_min) * (inter_y_max - inter_y_min)
        area1 == (XMax(bbox1) - XMin(bbox1)) * (YMax(bbox1) - YMin(bbox1))
        area2 == (XMax(bbox2) - XMin(bbox2)) * (YMax(bbox2) - YMin(bbox2))
    IN IF inter_x_min >= inter_x_max \/ inter_y_min >= inter_y_max
       THEN [num |-> 0, den |-> 1]
       ELSE [num |-> inter_area, den |-> area1 + area2 - inter_area]

\* iou(...) > 0.85
IouThresholdPercent == 85
IsDuplicateBox(bbox1, bbox2) ==
    iou(bbox1, bbox2).num * 100 > IouThresholdPercent * iou(bbox1, bbox2).den

\* the confidence EasyOCR reports, in percent
OcrConfidence == 90
Fragment(text, bbox) == [bbox |-> bbox, text |-> text, confidence |-> OcrConfidence]

\* cv2.imread returns an image, not None
IsImage(file) == file.readable

\* bbox lies inside a region painted black
IsBlack(image, bbox) ==
    \E b \in image.black :
        /\ XMin(b) <= XMin(bbox) /\ XMax(bbox) <= XMax(b)
        /\ YMin(b) <= YMin(bbox) /\ YMax(bbox) <= YMax(b)

\* reader.readtext: the fragments of the image that are not painted over
readtext(image) == SelectSeq(image.frags, LAMBDA f : ~IsBlack(image, f.bbox))

\* sorted(items, key): stable, smallest key first
RECURSIVE SortByKey(_, _)
SortByKey(items, keys) ==
    IF items = <<>> THEN <<>>
    ELSE LET first == CHOOSE i \in 1..Len(items) :
                 /\ \A j \in 1..Len(items) : keys[i] <= keys[j]
                 /\ \A j \in 1..(i - 1) : keys[i] < keys[j]
             Rest(seq) == [j \in 1..(Len(seq) - 1) |-> IF j < first THEN seq[j] ELSE seq[j + 1]]
         IN <<items[first]>> \o SortByKey(Rest(items), Rest(keys))

\* twice the center_y of a fragment
CenterY2(line) == YMin(line.bbox) + YMax(line.bbox)

\* line spacing threshold
threshold == 25

\* the rows after the first k fragments of the list sorted by center_y: a fragment
\* less than the threshold below the last one of the current row joins that row
RECURSIVE GroupLines(_, _)
GroupLines(lines, k) ==
    IF k = 0 THEN <<>>
    ELSE LET grouped == GroupLines(lines, k - 1)
             current_group == grouped[Len(grouped)]
             prev_y2 == CenterY2(current_group[Len(current_group)])
             dist2 == IF CenterY2(lines[k]) >= prev_y2 THEN CenterY2(lines[k]) - prev_y2
                      ELSE prev_y2 - CenterY2(lines[k])
         IN IF grouped = <<>> THEN << <<lines[k]>> >>
            ELSE IF dist2 < 2 * threshold
                 THEN [grouped EXCEPT ![Len(grouped)] = Append(current_group, lines[k])]
                 ELSE Append(grouped, <<lines[k]>>)

\* the text of one row: its fragments from left to right, joined by spaces
LineText(group) ==
    LET group_sorted == SortByKey(group, [i \in 1..Len(group) |-> XMin(group[i].bbox)])
    IN Join(<<" ">>, [i \in 1..Len(group_sorted) |-> group_sorted[i].text])

\* the full text of the OCR results: the rows from top to bottom, one per line
FullText(results) ==
    LET lines == SortByKey(results, [i \in 1..Len(results) |-> CenterY2(results[i])])
        grouped_lines == GroupLines(lines, Len(lines))
    IN Join(<<"\n">>, [g \in 1..Len(grouped_lines) |-> LineText(grouped_lines[g])])

\* IGNORE_WORDS of mask_sensitive_text
IMAGE_IGNORE_WORDS ==
    { <<"c","o","p","y">>,
      <<"c","o","n","f","i","d","e","n","t","i","a","l">>,
      <<"d","r","a","f","t">>,
      <<"s","a","m","p","l","e">>,
      <<"e","x","a","m","p","l","e">>,
      <<"t","e","m","p","l","a","t","e">>,
      <<"s","p","e","c","i","m","e","n">>,
      <<"w","a","t","e","r","m","a","r","k">>,
      <<"v","o","i","d">>,
      <<"d","u","p","l","i","c","a","t","e">>,
      <<"o","r","i","g","i","n","a","l">>,
      <<"c","e","r","t","i","f","i","e","d">>,
      <<"t","r","u","e"," ","c","o","p","y">>,
      <<"m","a","l","a","y","s","i","a">>,
      <<"m","y","k","a","d">>,
      <<"i","d","e","n","t","i","t","y">>,
      <<"c","a","r","d">>,
      <<"i","d","e","n","t","i","t","y"," ","c","a","r","d">>,
      <<"k","a","d">>,
      <<"p","e","n","g","e","n","a","l","a","n">>,
      <<"k","a","d"," ","p","e","n","g","e","n","a","l","a","n">>,
      <<"w","a","r","g","a","n","e","g","a","r","a">>,
      <<"l","e","l","a","k","i">>,
      <<"p","e","r","e","m","p","u","a","n">>,
      <<"b","u","j","a","n","g">>,
      <<"k","a","w","i","n">>,
      <<"m","a","l","e">>,
      <<"f","e","m","a","l","e">>,
      <<"c","i","t","i","z","e","n">>,
      <<"n","o","t"," ","c","i","t","i","z","e","n">>,
      <<"n","a","m","e">>,
      <<"a","d","d","r","e","s","s">>,
      <<"p","h","o","n","e">>,
      <<"e","m","a","i","l">>,
      <<"t","y","p","e">>,
      <<"n","u","m","b","e","r">>,
      <<"i","d","e","n","t","i","f","i","c","a","t","i","o","n">>,
      <<"p","a","s","s","p","o","r","t">>,
      <<"b","a","n","k">>,
      <<"a","c","c","o","u","n","t">>,
      <<"a","c","c","o","u","n","t"," ","t","y","p","e">>,
      <<"a","c","c","o","u","n","t"," ","n","o">>,
      <<"a","c","c","o","u","n","t"," ","n","u","m","b","e","r">>,
      <<"b","a","n","k"," ","a","c","c","o","u","n","t">>,
      <<"b","a","n","k"," ","n","a","m","e">>,
      <<"b","a","n","k"," ","s","t","a","t","e","m","e","n","t">>,
      <<"s","t","a","t","e","m","e","n","t">>,
      <<"a","c","c","o","u","n","t"," ","h","o","l","d","e","r">>,
      <<"a","c","c","o","u","n","t"," ","h","o","l","d","e","r"," ","n","a","m","e">>,
      <<"p","u","b","l","i","c"," ","b","a","n","k">>,
      <<"m","a","y","b","a","n","k">>,
      <<"c","i","m","b">>,
      <<"h","s","b","c">>,
      <<"s","t","a","n","d","a","r","d"," ","c","h","a","r","t","e","r","e","d">>,
      <<"u","o","b">>,
      <<"o","c","b","c">>,
      <<"b","a","n","k"," ","s","t","a","t","e","m","e","n","t"," ","e","x","a","m","p","l","e">>,
      <<"f","o","u","r"," ","b","a","n","k">>,
      <<"s","p","e","c","i","m","e","n"," ","c","o","p","y">> }

\* re.findall(r'\b\w+\b', text)
TextWords(text) == FindAll(RCat(<<RWb, RPlus(RW), RWb>>), text)

\* a looser test: the normalized text contains an ignore word or phrase
contains_ignore_word(text, ignore_words) ==
    \E word \in ignore_words : IsSubstr(word, StrLower(StrStrip(text)))

\* _should_ignore_word: the normalized text is an ignore word or phrase, or its
\* words joined by single spaces are
should_ignore_word(text, ignore_words) ==
    \E normalized \in {StrLower(StrStrip(text))} :
    \E text_words \in {TextWords(normalized)} :
        \/ normalized \in ignore_words
        \/ Join(<<" ">>, text_words) \in ignore_words
        \/ (Len(text_words) = 1 /\ text_words[1] \in ignore_words)

\* the filter of mask_sensitive_text on the entries extract_all_pii returned:
\* empty and ignored values skipped, a selectable category kept only if enabled
selectable_categories == {"NAMES", "RACES", "ORG_NAMES", "STATUS", "LOCATIONS", "RELIGIONS"}
KeepsEntry(entry, enabled_pii_categories) ==
    /\ StrStrip(entry[2]) # <<>>
    /\ ~should_ignore_word(Normalized(entry[2]), IMAGE_IGNORE_WORDS)
    /\ (entry[1] \in selectable_categories => entry[1] \in enabled_pii_categories)
FilterPii(pii_entries, enabled_pii_categories) ==
    LET kept == SelectSeq(pii_entries, LAMBDA e : KeepsEntry(e, enabled_pii_categories))
    IN [i \in 1..Len(kept) |-> <<kept[i][1], StrStrip(kept[i][2])>>]

\* keywords = list(set(value for _, value in filtered_pii))
Keywords(filtered_pii) == {filtered_pii[i][2] : i \in 1..Len(filtered_pii)}

\* a fragment is matched when it contains a keyword, case ignored
IsMatched(text, keywords) == \E keyword \in keywords : IsSubstr(StrLower(keyword), StrLower(text))

\* a fragment already processed: same text, case ignored, in nearly the same box
IsSeen(fragment, seen) ==
    \E i \in 1..Len(seen) :
        /\ IsDuplicateBox(fragment.bbox, seen[i].bbox)
        /\ StrLower(fragment.text) = StrLower(seen[i].text)

\* the bbox of a record: the extremes of the fragment's box
RecordBbox(bbox) == Bbox(XMin(bbox), YMin(bbox), XMax(bbox), YMax(bbox))

\* the pixels of a region, PNG-encoded: what is to be read there, nothing once the
\* region is black
Roi(image, bbox) ==
    SelectSeq(readtext(image), LAMBDA f : RecordBbox(f.bbox) = RecordBbox(bbox))

\* mask_region_improved: the region painted black
mask_region_improved(image, bbox) == [image EXCEPT !.black = @ \cup {RecordBbox(bbox)}]

\* the loop over the OCR results after its first k rounds: the fragments seen, the
\* records and the image
RECURSIVE MaskFragments(_, _, _, _, _)
MaskFragments(image, results, keywords, key, k) ==
    IF k = 0 THEN [seen |-> <<>>, encrypted_data |-> <<>>, image |-> image]
    ELSE LET before == MaskFragments(image, results, keywords, key, k - 1)
             fragment == results[k]
         IN IF \/ ~IsMatched(fragment.text, keywords)
               \/ should_ignore_word(fragment.text, IMAGE_IGNORE_WORDS)
               \/ IsSeen(fragment, before.seen)
            THEN before
            ELSE [seen |-> Append(before.seen, [bbox |-> fragment.bbox, text |-> fragment.text]),
                  encrypted_data |->
                      Append(before.encrypted_data,
                             [cipher |-> encrypt_fernet(fragment.text, key),
                              bbox |-> RecordBbox(fragment.bbox),
                              confidence |-> fragment.confidence,
                              original_image_base64 |-> Roi(before.image, fragment.bbox)]),
                  image |-> mask_region_improved(before.image, fragment.bbox)]

(***************************************************************************)
(* The task folder of a text upload: POST /process runs run_text_processing *)
(* on every .txt file of the folder, POST /decrypt restores from the three  *)
(* files the user sends.                                                    *)
(***************************************************************************)
VARIABLES
    enabled,          \* enabled_pii_categories of pii_config.json
    api_key,          \* OPENAI_API_KEY is set and the client library is installed
    chatgpt_enabled,  \* pii_main.chatgpt_enabled
    linesep,          \* os.linesep of the host
    fs,               \* the files of the task folder: name |-> content
    nextKey,          \* the next key Fernet.generate_key() returns
    runs,             \* processing runs so far
    last,             \* what the last operation read, detected and returned
    pool              \* the page tasks of the worker pool: image name |-> task

vars == <<enabled, api_key, chatgpt_enabled, linesep, fs, nextKey, runs, last, pool>>

\* the pieces the uploaded documents are made of
MaxSegs == 2
Segments ==
    << <<"I","C"," ","9","1","1","1","1","1","1","1","1","1","1","1">>,
       <<" ","1","4">>,
       <<"A","@","b",".","m","y">>,
       <<" ","a","@","b",".","m","y">>,
       <<"P","e","r","a","k">>,
       <<" ","m","a","l","e">>,
       <<"\r">>,
       <<"[","E","N","C",":","M","o","n","e","y","_","a","a","b","3","2","3","8","9","]">> >>

RECURSIVE SegSeqs(_)
SegSeqs(n) ==
    IF n = 0 THEN {<<>>}
    ELSE SegSeqs(n - 1) \cup {Append(ss, i) : ss \in SegSeqs(n - 1), i \in 1..Len(Segments)}

Docs == {Concat([k \in 1..Len(ss) |-> Segments[ss[k]]]) : ss \in SegSeqs(MaxSegs)}

EnabledSets == {{}, SELECTABLE_PII_CATEGORIES}
LineSeps == {<<"\n">>, <<"\r", "\n">>}

\* what the two learned detectors may report: at most one entity of the text each
NerCandidates == { <<"LOC", <<"P","e","r","a","k">>>> }
ChatGptCandidates ==
    { <<"LOCATIONS", <<"P","e","r","a","k">>>>, <<"NAMES", <<"A","@","b",".","m","y">>>> }
DetectorOutputs(candidates, text) ==
    {<<>>} \cup {<<c>> : c \in {d \in candidates : IsSubstr(d[2], text)}}

\* keys: 0 stands for bytes that are no Fernet key, 1..MaxRuns are the well-formed
\* keys, generated in this order
MaxRuns == 2
MalformedKey == 0
UserKeys == MalformedKey..MaxRuns

\* file names are their dot-separated components: x.masked.txt is <<"x","masked","txt">>
Upload == <<"x", "txt">>
Ext(name) == name[Len(name)]
\* os.path.splitext(name)[0]
BaseName(name) == SubSeq(name, 1, Len(name) - 1)
MaskedName(name) == BaseName(name) \o <<"masked", "txt">>
JsonName(name) == BaseName(name) \o <<"masked", "json">>
KeyName(name) == BaseName(name) \o <<"key">>

None == <<"none">>
NoOp ==
    [op |-> "none", file |-> None, json |-> None, key |-> MalformedKey, status |-> "none",
     content |-> <<>>, presidio |-> <<>>, ner |-> <<>>, chatgpt |-> <<>>, stage1 |-> <<>>,
     pii |-> <<>>, ignored |-> {}, keywords |-> {}, failed |-> {}, out |-> None]

\* no page task is submitted
NoTasks == <<>>

Init ==
    /\ enabled \in EnabledSets
    /\ api_key \in BOOLEAN
    /\ chatgpt_enabled = FALSE
    /\ linesep \in LineSeps
    /\ \E doc \in Docs : fs = (Upload :> doc)
    /\ nextKey = 1
    /\ runs = 0
    /\ last = NoOp
    /\ pool = NoTasks

\* f extended or overwritten at the names of g
Write(f, g) == [n \in DOMAIN f \cup DOMAIN g |-> IF n \in DOMAIN g THEN g[n] ELSE f[n]]

\* process_text_optimized on the content read, for the list extract_all_pii returned:
\* the mapping and the masked text
process_text_optimized(content, all_pii_list, key) ==
    LET mapping == BuildMapping(all_pii_list, key, {})
    IN [mapping |-> mapping, masked_text |-> MaskText(content, mapping)]

\* what one run of extract_all_pii saw and returned
Detection(presidio_regex_results, ner_results, chatgpt_results, stage1) ==
    [presidio |-> presidio_regex_results, ner |-> ner_results, chatgpt |-> chatgpt_results,
     stage1 |-> stage1, pii |-> StageFilter(stage1, {})]

\* run_text_processing(file_path, enabled): a fresh key, process_text_optimized,
\* the masked text, the mapping and the key written next to the file
run_text_processing(name) ==
    /\ runs < MaxRuns
    /\ name \in DOMAIN fs
    /\ Ext(name) = "txt"
    /\ \E content \in {ReadText(fs[name])}, chatgpt_on \in {chatgpt_enabled \/ api_key} :
       \E presidio_regex_results \in {PresidioRegexResults(content, enabled)} :
       \E ner_results \in DetectorOutputs(NerCandidates, content) :
       \E chatgpt_raw \in
              IF chatgpt_on /\ Len(StrStrip(content)) >= MinChatGptLen
              THEN DetectorOutputs(ChatGptCandidates, content) ELSE {<<>>} :
       \E chatgpt_results \in {ChatGptResults(content, chatgpt_on, chatgpt_raw)} :
       \E stage1 \in {combine_pii_results(presidio_regex_results, ner_results,
                                          chatgpt_results)} :
       \E det \in {Detection(presidio_regex_results, ner_results, chatgpt_results, stage1)} :
       \E res \in {process_text_optimized(content, det.pii, nextKey)} :
          /\ fs' = Write(fs, (MaskedName(name) :> WriteText(res.masked_text, linesep))
                             @@ (JsonName(name) :> JsonDump(res.mapping))
                             @@ (KeyName(name) :> nextKey))
          /\ last' = [NoOp EXCEPT
                         !.op = "mask", !.file = name, !.json = JsonName(name),
                         !.key = nextKey, !.status = "success", !.content = content,
                         !.presidio = det.presidio, !.ner = det.ner,
                         !.chatgpt = det.chatgpt, !.stage1 = det.stage1, !.pii = det.pii,
                         !.out = res.masked_text]
          /\ chatgpt_enabled' = chatgpt_on
    /\ nextKey' = nextKey + 1
    /\ runs' = runs + 1
    /\ UNCHANGED <<enabled, api_key, linesep, pool>>

\* decrypt_masked_file(masked, json, key) on a masked file and the mapping written
\* with it: Fernet(key) raises on bytes that are no key; the mapping is loaded and
\* every tag is replaced by its record's original.  The decrypted file is written
\* in the temporary directory of the request and returned: it is last.out
decrypt_masked_file(masked_name, key) ==
    /\ masked_name \in DOMAIN fs /\ Ext(masked_name) = "txt" /\ masked_name # Upload
    /\ key \in UserKeys
    /\ \E json_name \in {BaseName(masked_name) \o <<"json">>} :
       \E result \in {[NoOp EXCEPT !.op = "restore", !.file = masked_name,
                                   !.json = json_name, !.key = key]} :
          last' = IF key = MalformedKey
                  THEN [result EXCEPT !.status = "error"]
                  ELSE [result EXCEPT
                           !.status = "success",
                           !.out = WriteText(RestoreText(ReadText(fs[masked_name]),
                                                         JsonLoad(fs[json_name])),
                                             linesep)]
    /\ UNCHANGED <<enabled, api_key, chatgpt_enabled, linesep, fs, nextKey, runs, pool>>

Next ==
    \/ \E name \in DOMAIN fs : run_text_processing(name)
    \/ \E masked_name \in DOMAIN fs, key \in UserKeys :
           decrypt_masked_file(masked_name, key)

Spec == Init /\ [][Next]_vars

(***************************************************************************)
(* Properties of the text pipeline                                         *)
(***************************************************************************)
AlwaysOnLabels == {"IC", "Email", "Phone", "Bank Account", "Credit Card", "DOB"}

\* the key file run_text_processing wrote next to the masked file
KeyOf(masked_name) == fs[BaseName(BaseName(masked_name)) \o <<"key">>]

\* C1: restoring the masked text of the upload with the mapping and the key its
\* masking run wrote yields exactly the uploaded document
RoundTripExact ==
    (/\ last.op = "restore"
     /\ last.file = MaskedName(Upload)
     /\ last.key = KeyOf(last.file))
    => (last.status = "success" /\ last.out = fs[Upload])

\* C2: a restore with a well-formed key that is not the key the mapping's
\* ciphertexts were made with refuses and produces no restored file
RestoreFailsClosed ==
    (/\ last.op = "restore"
     /\ last.key # MalformedKey
     /\ fs[last.json] # <<>>
     /\ \A i \in 1..Len(fs[last.json]) : fs[last.json][i].encrypted.key # last.key)
    => (last.status = "error" /\ last.out = None)

\* C3: no record of a mapping file holds, outside its ciphertext, the original
\* text its ciphertext encrypts
NoPlaintextInMapping ==
    \A n \in DOMAIN fs :
        Ext(n) = "json" =>
            \A i \in 1..Len(fs[n]) : JsonUnescape(fs[n][i].original) # fs[n][i].encrypted.plain

\* C4: every value a rule extractor found in an always-on category is in the list
\* extract_all_pii returns and has a record in the mapping written
AlwaysOnRetained ==
    last.op = "mask" =>
        \A i \in 1..Len(last.presidio) :
            last.presidio[i][1] \in AlwaysOnLabels =>
                /\ \E j \in 1..Len(last.pii) : last.pii[j][2] = last.presidio[i][2]
                /\ \E j \in 1..Len(fs[last.json]) :
                       JsonUnescape(fs[last.json][j].original) = last.presidio[i][2]

\* C5: no entry of a selectable category that is not enabled is in the list the
\* masker tags, nor in the mapping written
SelectableGated ==
    last.op = "mask" =>
        /\ \A j \in 1..Len(last.pii) :
               last.pii[j][1] \in SELECTABLE_PII_CATEGORIES => last.pii[j][1] \in enabled
        /\ \A j \in 1..Len(fs[last.json]) :
               fs[last.json][j].label \in SELECTABLE_PII_CATEGORIES
                   => fs[last.json][j].label \in enabled

\* C9: masking the masked text of the upload again, with the same enabled
\* categories and with nothing reported by the learned detectors, changes nothing
RemaskNoChange ==
    (/\ last.op = "mask"
     /\ last.file = MaskedName(Upload)
     /\ last.ner = <<>>
     /\ last.chatgpt = <<>>)
    => last.out = last.content

\* the mapping files among the files f
MappingFiles(f) == {n \in DOMAIN f : Ext(n) = "json"}

\* C14: a value tagged under a label again, by a later run with another key, gets
\* the tag it had: the records of a mapping file before and after a run that hold
\* the same label and the same original hold the same tag
TagDeterministic ==
    [][\A n \in MappingFiles(fs) \cap MappingFiles(fs') :
           \A i \in 1..Len(fs[n]), j \in 1..Len(fs'[n]) :
               (fs[n][i].label = fs'[n][j].label /\ fs[n][i].original = fs'[n][j].original)
                   => fs[n][i].masked = fs'[n][j].masked]_vars

\* the upload was masked a second time, under the second key, and a value was tagged
TagDeterministicWitness ==
    /\ runs = 2
    /\ last.op = "mask"
    /\ last.file = Upload
    /\ last.key = 2
    /\ fs[last.json] # <<>>
    /\ \A i \in 1..Len(fs[last.json]) : fs[last.json][i].encrypted.key = 2

\* the key files among the files f
KeyFiles(f) == {n \in DOMAIN f : Ext(n) = "key"}

\* C17: once a document has a key file, no later masking run replaces its content
KeyKept ==
    [][\A n \in KeyFiles(fs) : n \in KeyFiles(fs') /\ fs'[n] = fs[n]]_vars

\* the candidates the detectors supplied in the last run
Candidates == last.presidio \o last.ner \o last.chatgpt

\* at most one entry per normalized value, each value a candidate's value as it is
UniqueByNormalized(entries) ==
    /\ \A i, j \in 1..Len(entries) :
           Normalized(entries[i][2]) = Normalized(entries[j][2]) => i = j
    /\ \A i \in 1..Len(entries) :
           \E k \in 1..Len(Candidates) : Candidates[k][2] = entries[i][2]

\* C12: the output of combine_pii_results and the list extract_all_pii returns hold
\* at most one entry per normalized value, and every value they hold is the value
\* of one of the candidates, in its casing
ConsensusUnique ==
    last.op = "mask" => (UniqueByNormalized(last.stage1) /\ UniqueByNormalized(last.pii))

\* a run in which two candidates had the same normalized value in two casings
ConsensusUniqueWitness ==
    /\ last.op = "mask"
    /\ last.pii # <<>>
    /\ \E i, j \in 1..Len(last.presidio) :
           /\ last.presidio[i][2] # last.presidio[j][2]
           /\ Normalized(last.presidio[i][2]) = Normalized(last.presidio[j][2])

(***************************************************************************)
(* combine_pii_results on its own: the rule and dictionary results of a    *)
(* text, and up to two entities from each of the two learned detectors.     *)
(***************************************************************************)
ConsensusTexts ==
    { <<"K","a","d","i","r"," ","b","i","n"," ","K","a","d","i","r"," ","A","@","b",".","m","y">>,
      <<"K","a","d","i","r"," ","t","i","n","g","g","a","l"," ","d","i"," ","P","e","r","a","k">>,
      <<"P","e","r","a","k"," ","1","4"," ","d","a","n"," ","P","e","r","a","k"," ","1","4">> }
ConsensusNerCandidates ==
    { <<"PER", <<"K","a","d","i","r">>>>, <<"ORG", <<"K","a","d","i","r">>>>,
      <<"LOC", <<"P","e","r","a","k">>>> }
ConsensusChatGptCandidates ==
    { <<"NAMES", <<"K","a","d","i","r">>>>, <<"ORG_NAMES", <<"K","a","d","i","r">>>>,
      <<"LOCATIONS", <<"P","e","r","a","k">>>> }

\* the lists of at most two of the candidates whose value is in the text
DetectorLists(candidates, text) ==
    LET found == {c \in candidates : IsSubstr(c[2], text)}
    IN {<<>>} \cup {<<c>> : c \in found} \cup {<<c, d>> : c \in found, d \in found}

ConsensusInit ==
    /\ enabled \in EnabledSets
    /\ api_key = TRUE
    /\ chatgpt_enabled = TRUE
    /\ linesep = <<"\n">>
    /\ \E text \in ConsensusTexts :
       \E ner_results \in DetectorLists(ConsensusNerCandidates, text) :
       \E chatgpt_results \in DetectorLists(ConsensusChatGptCandidates, text) :
          /\ fs = (Upload :> text)
          /\ last = [NoOp EXCEPT !.op = "candidates", !.content = text,
                                 !.presidio = PresidioRegexResults(text, enabled),
                                 !.ner = ner_results, !.chatgpt = chatgpt_results]
    /\ nextKey = 1
    /\ runs = 0
    /\ pool = NoTasks

\* step 5 of extract_all_pii: the consensus over the three lists
Consensus ==
    /\ last.op = "candidates"
    /\ last' = [last EXCEPT !.op = "combine",
                            !.stage1 = combine_pii_results(last.presidio, last.ner,
                                                           last.chatgpt)]
    /\ UNCHANGED <<enabled, api_key, chatgpt_enabled, linesep, fs, nextKey, runs, pool>>

ConsensusNext == Consensus

ConsensusSpec == ConsensusInit /\ [][ConsensusNext]_vars

\* seq with its entries i and i + 1 exchanged
SwapAt(seq, i) ==
    [k \in 1..Len(seq) |-> IF k = i THEN seq[i + 1] ELSE IF k = i + 1 THEN seq[i] ELSE seq[k]]

\* the category emitted for each normalized value
CategoryPairs(results) == {<<Normalized(results[k][2]), results[k][1]>> : k \in 1..Len(results)}

\* C13: the category combine_pii_results emits for a value is the same when the
\* candidates of a detector are given in another order
ConsensusOrderFree ==
    last.op = "combine" =>
        /\ \A i \in 1..(Len(last.presidio) - 1) :
               CategoryPairs(combine_pii_results(SwapAt(last.presidio, i), last.ner,
                                                 last.chatgpt))
                   = CategoryPairs(last.stage1)
        /\ \A i \in 1..(Len(last.ner) - 1) :
               CategoryPairs(combine_pii_results(last.presidio, SwapAt(last.ner, i),
                                                 last.chatgpt))
                   = CategoryPairs(last.stage1)

(***************************************************************************)
(* The task folder of an image upload: POST /process runs run_ocr_jpeg on  *)
(* every image of the folder.                                              *)
(***************************************************************************)
ImageUpload == <<"x", "jpg">>
\* x.jpg is masked into x_masked.jpg and x_masked.json, under the key of x.key
ImageMaskedName(name) == BaseName(name) \o <<"masked", Ext(name)>>
ImageJsonName(name) == BaseName(name) \o <<"masked", "json">>

\* where the fragments of the uploaded images are: the second one right of the
\* first in its row, below it in the next row, or nearly in its place
FirstBox == Bbox(0, 0, 100, 20)
SecondBoxes == {Bbox(120, 0, 220, 20), Bbox(0, 40, 100, 60), Bbox(0, 0, 100, 21)}
FragmentTexts ==
    { <<"K","a","d","i","r","@","b",".","m","y">>,
      <<"M","a","y","b","a","n","k">>,
      <<"M","a","l","e">>,
      <<"P","u","b","l","i","c"," ","B","a","n","k">>,
      <<"P","e","r","a","k">>,
      <<"K","a","d"," ","P","e","n","g","e","n","a","l","a","n">> }
Readable(frags) == [readable |-> TRUE, frags |-> frags, black |-> {}]
Images ==
    {[readable |-> FALSE, frags |-> <<>>, black |-> {}], Readable(<<>>)}
    \cup {Readable(<<Fragment(t, FirstBox)>>) : t \in FragmentTexts}
    \cup {Readable(<<Fragment(t, FirstBox), Fragment(u, b)>>) :
              t \in FragmentTexts, u \in FragmentTexts, b \in SecondBoxes}

\* what the two learned detectors may report on the text of an image
ImageNerCandidates ==
    { <<"ORG", <<"M","a","y","b","a","n","k">>>>, <<"ORG", <<"P","u","b","l","i","c">>>>,
      <<"LOC", <<"P","e","r","a","k">>>> }
ImageChatGptCandidates ==
    { <<"NAMES", <<"K","a","d","i","r","@","b",".","m","y">>>>, <<"LOCATIONS", <<"P","e","r","a","k">>>> }

ImageInit ==
    /\ enabled \in EnabledSets
    /\ api_key \in BOOLEAN
    /\ chatgpt_enabled = FALSE
    /\ linesep = <<"\n">>
    /\ \E image \in Images : fs = (ImageUpload :> image)
    /\ nextKey = 1
    /\ runs = 0
    /\ last = NoOp
    /\ pool = NoTasks

\* load_or_generate_valid_key when nothing runs between its test and its write:
\* the key of the file if there is one and it is a key, else a fresh key
load_or_generate_valid_key(key_path) ==
    IF key_path \in DOMAIN fs /\ fs[key_path] # MalformedKey THEN fs[key_path] ELSE nextKey

\* the values the ignore lists dropped, each normalized, by the place of the drop:
\* the stage filter of extract_all_pii, the filter of mask_sensitive_text, the
\* loop over the OCR fragments
IgnoredValues(stage1, pii_entries, results, keywords) ==
    {[stage |-> "stage1", value |-> Normalized(stage1[i][2])] :
         i \in {j \in 1..Len(stage1) : /\ Normalized(stage1[j][2]) # <<>>
                                       /\ InIgnoreWords(Normalized(stage1[j][2]))}}
    \cup
    {[stage |-> "filter", value |-> Normalized(pii_entries[i][2])] :
         i \in {j \in 1..Len(pii_entries) :
                   should_ignore_word(Normalized(pii_entries[j][2]), IMAGE_IGNORE_WORDS)}}
    \cup
    {[stage |-> "ocr", value |-> Normalized(results[i].text)] :
         i \in {j \in 1..Len(results) :
                   /\ IsMatched(results[j].text, keywords)
                   /\ should_ignore_word(results[j].text, IMAGE_IGNORE_WORDS)}}

\* mask_sensitive_text with the key in hand: the records, the masked image, and
\* what was ignored on the way
MaskImage(image, results, det, filtered_pii, key) ==
    [masked |-> MaskFragments(image, results, Keywords(filtered_pii), key, Len(results)),
     keywords |-> Keywords(filtered_pii),
     ignored |-> IgnoredValues(det.stage1, det.pii, results, Keywords(filtered_pii))]

\* run_ocr_jpeg(image_path, enabled): mask_sensitive_text with the key file next to
\* the image; an image that cannot be read is an error and nothing is written
run_ocr_jpeg(name) ==
    /\ runs < MaxRuns
    /\ name \in DOMAIN fs
    /\ Ext(name) = "jpg"
    /\ IF ~IsImage(fs[name])
       THEN /\ last' = [NoOp EXCEPT !.op = "mask_image", !.file = name, !.status = "error"]
            /\ UNCHANGED <<fs, nextKey, chatgpt_enabled>>
       ELSE \E results \in {readtext(fs[name])}, chatgpt_on \in {chatgpt_enabled \/ api_key} :
            \E full_text \in {FullText(results)} :
            \E presidio_regex_results \in {PresidioRegexResults(full_text, enabled)} :
            \E ner_results \in DetectorOutputs(ImageNerCandidates, full_text) :
            \E chatgpt_raw \in
                   IF chatgpt_on /\ Len(StrStrip(full_text)) >= MinChatGptLen
                   THEN DetectorOutputs(ImageChatGptCandidates, full_text) ELSE {<<>>} :
            \E chatgpt_results \in {ChatGptResults(full_text, chatgpt_on, chatgpt_raw)} :
            \E stage1 \in {combine_pii_results(presidio_regex_results, ner_results,
                                               chatgpt_results)} :
            \E det \in {Detection(presidio_regex_results, ner_results, chatgpt_results,
                                  stage1)} :
            \E filtered_pii \in {FilterPii(det.pii, enabled)} :
            \E key \in {load_or_generate_valid_key(KeyName(name))} :
            \E res \in {MaskImage(fs[name], results, det, filtered_pii, key)} :
               /\ fs' = Write(fs, (ImageMaskedName(name) :> res.masked.image)
                                  @@ (ImageJsonName(name) :> res.masked.encrypted_data)
                                  @@ (KeyName(name) :> key))
               /\ nextKey' = IF key = nextKey THEN nextKey + 1 ELSE nextKey
               /\ last' = [NoOp EXCEPT
                              !.op = "mask_image", !.file = name,
                              !.json = ImageJsonName(name), !.key = key,
                              !.status = "success", !.content = full_text,
                              !.presidio = det.presidio, !.ner = det.ner,
                              !.chatgpt = det.chatgpt, !.stage1 = det.stage1,
                              !.pii = det.pii, !.ignored = res.ignored,
                              !.keywords = res.keywords, !.out = res.masked.encrypted_data]
               /\ chatgpt_enabled' = chatgpt_on
    /\ runs' = runs + 1
    /\ UNCHANGED <<enabled, api_key, linesep, pool>>

ImageNext == \E name \in DOMAIN fs : run_ocr_jpeg(name)

ImageSpec == ImageInit /\ [][ImageNext]_vars

(***************************************************************************)
(* Properties of the image pipeline                                        *)
(***************************************************************************)
\* the ignore list that is consulted at a place of the pipeline
IgnoreListOf(stage) == IF stage = "stage1" THEN IGNORE_WORDS ELSE IMAGE_IGNORE_WORDS

\* value is, word for word, an ignore word or phrase of the list
TokenizesInto(value, ignore_words) ==
    \E word \in ignore_words : TextWords(value) = TextWords(word)

\* C10: whatever an ignore list dropped, as a candidate or as an OCR fragment, is
\* word for word an ignore word or phrase of that list; a value that only contains
\* an ignore word inside a larger word is not among the dropped
IgnoreWordPrecision ==
    \A d \in last.ignored : TokenizesInto(d.value, IgnoreListOf(d.stage))

\* an image was masked in which one candidate was dropped by the ignore list of
\* mask_sensitive_text and another, which contains an ignore word inside a larger word, became a keyword
IgnoreWordPrecisionWitness ==
    /\ last.op = "mask_image"
    /\ last.status = "success"
    /\ \E d \in last.ignored : d.stage = "filter"
    /\ \E keyword \in last.keywords :
           /\ contains_ignore_word(keyword, IMAGE_IGNORE_WORDS)
           /\ ~TokenizesInto(Normalized(keyword), IMAGE_IGNORE_WORDS)
           /\ \E i \in 1..Len(last.out) : last.out[i].cipher.plain = keyword

(***************************************************************************)
(* The task folder of a PDF upload: POST /process runs run_pdf_processing  *)
(* on the PDF.  Its pages are written as images into the page folder, a    *)
(* pool of workers masks the images of that folder, each worker running    *)
(* mask_sensitive_text, and the masked images are put together again.      *)
(***************************************************************************)
PdfUpload == <<"d", "pdf">>
PdfMaskedName == <<"d", "masked", "pdf">>
PdfJsonName == <<"d", "masked", "json">>
PdfKeyName == <<"d", "key">>

\* the pages of the uploaded documents
MaxPages == 2
PageNumbers == <<"1", "2">>
PageImages ==
    { Readable(<<Fragment(<<"K","a","d","i","r","@","b",".","m","y">>, FirstBox)>>),
      Readable(<<Fragment(<<"M","a","l","e">>, FirstBox)>>) }
RECURSIVE PageSeqs(_)
PageSeqs(n) == IF n = 0 THEN {<<>>} ELSE {Append(ps, image) : ps \in PageSeqs(n - 1), image \in PageImages}
Pdfs == PageSeqs(MaxPages)

\* d_pages/page_1.jpg is <<"pages", "page", "1", "jpg">>, its masked image
\* d_pages/page_1_masked.jpg is <<"pages", "page", "1", "masked", "jpg">>
PageName(i) == <<"pages", "page", PageNumbers[i], "jpg">>
InPageFolder(name) == Len(name) >= 4 /\ name[1] = "pages" /\ Ext(name) = "jpg"
\* int(re.search(r'page_(\d+)', basename).group(1))
PageNumberOf(name) == CHOOSE i \in 1..MaxPages : PageNumbers[i] = name[3]
\* d_page_1.json, the records of page 1
PageJsonName(page_number) == <<"d", "page", PageNumbers[page_number], "json">>

\* float('inf'), the sort key of a file whose name is not page_<n>_masked.<ext>
Infinity == 2147483647
\* extract_page_number of images_to_pdf
extract_page_number(filename) ==
    IF Len(filename) = 5 /\ filename[2] = "page" /\ filename[4] = "masked"
    THEN PageNumberOf(filename) ELSE Infinity

\* the files of images_to_pdf: the images of the folder with _masked in the name
MaskedImageFiles(files) ==
    {name \in DOMAIN files : InPageFolder(name) /\ \E k \in 1..Len(name) : name[k] = "masked"}

\* os.listdir: the names in an order the file system chooses
ListDirOrders(names) ==
    {listing \in [1..Cardinality(names) -> names] :
        \A name \in names : \E k \in 1..Cardinality(names) : listing[k] = name}

\* images_to_pdf: the masked images sorted by page number, the other ones last
images_to_pdf(files, listing) ==
    LET image_files ==
            SortByKey(listing, [k \in 1..Len(listing) |-> extract_page_number(listing[k])])
    IN [k \in 1..Len(image_files) |-> [name |-> image_files[k], image |-> files[image_files[k]]]]

\* the page JSON files of pages 1..n that exist, one after the other
RECURSIVE MergePageJson(_, _)
MergePageJson(files, n) ==
    IF n = 0 THEN <<>>
    ELSE MergePageJson(files, n - 1)
         \o (IF PageJsonName(n) \in DOMAIN files THEN files[PageJsonName(n)] ELSE <<>>)

\* ThreadPoolExecutor(max_workers=4)
max_workers == 4
Submitted == [pc |-> "submitted", image |-> Readable(<<>>), results |-> <<>>, keywords |-> {},
              key |-> MalformedKey]
Running == {name \in DOMAIN pool : pool[name].pc \in {"key", "generate", "encrypt"}}
Finished == {name \in DOMAIN pool : pool[name].pc \in {"done", "failed"}}

PdfInit ==
    /\ enabled \in EnabledSets
    /\ api_key = FALSE
    /\ chatgpt_enabled = FALSE
    /\ linesep = <<"\n">>
    /\ \E pdf \in Pdfs : fs = (PdfUpload :> pdf)
    /\ nextKey = 1
    /\ runs = 0
    /\ last = NoOp
    /\ pool = NoTasks

\* run_pdf_processing, steps 1 and 2 up to the submission: pdf_to_images writes
\* page_<i>.jpg for every page, every image of the page folder is submitted
PdfStart ==
    /\ runs < MaxRuns
    /\ DOMAIN pool = {}
    /\ PdfUpload \in DOMAIN fs
    /\ \E pages \in {[name \in {PageName(i) : i \in 1..Len(fs[PdfUpload])} |->
                          fs[PdfUpload][PageNumberOf(name)]]} :
          /\ fs' = Write(fs, pages)
          /\ pool' = [name \in {n \in DOMAIN fs \cup DOMAIN pages : InPageFolder(n)} |->
                          Submitted]
    /\ UNCHANGED <<enabled, api_key, chatgpt_enabled, linesep, nextKey, runs, last>>

\* a worker takes a page: mask_sensitive_text up to the keywords, or the reader
\* raises and the future holds the exception
PageRead(name) ==
    /\ name \in DOMAIN pool
    /\ pool[name].pc = "submitted"
    /\ Cardinality(Running) < max_workers
    /\ \/ pool' = [pool EXCEPT ![name].pc = "failed"]
       \/ \E results \in {readtext(fs[name])} :
          \E full_text \in {FullText(results)} :
          \E presidio_regex_results \in {PresidioRegexResults(full_text, enabled)} :
          \E stage1 \in {combine_pii_results(presidio_regex_results, <<>>, <<>>)} :
          \E filtered_pii \in {FilterPii(StageFilter(stage1, {}), enabled)} :
             pool' = [pool EXCEPT ![name] = [pc |-> "key", image |-> fs[name],
                                             results |-> results,
                                             keywords |-> Keywords(filtered_pii),
                                             key |-> MalformedKey]]
    /\ UNCHANGED <<enabled, api_key, chatgpt_enabled, linesep, fs, nextKey, runs, last>>

\* load_or_generate_valid_key, the test: the key of the key file if it is there
PageKeyLoad(name) ==
    /\ name \in DOMAIN pool
    /\ pool[name].pc = "key"
    /\ pool' = IF PdfKeyName \in DOMAIN fs /\ fs[PdfKeyName] # MalformedKey
               THEN [pool EXCEPT ![name].pc = "encrypt", ![name].key = fs[PdfKeyName]]
               ELSE [pool EXCEPT ![name].pc = "generate"]
    /\ UNCHANGED <<enabled, api_key, chatgpt_enabled, linesep, fs, nextKey, runs, last>>

\* load_or_generate_valid_key, the except branch: a fresh key written to the file
PageKeyGenerate(name) ==
    /\ name \in DOMAIN pool
    /\ pool[name].pc = "generate"
    /\ pool' = [pool EXCEPT ![name].pc = "encrypt", ![name].key = nextKey]
    /\ fs' = Write(fs, PdfKeyName :> nextKey)
    /\ nextKey' = nextKey + 1
    /\ UNCHANGED <<enabled, api_key, chatgpt_enabled, linesep, runs, last>>

\* the page number added to every record of the page
WithPageNumber(page_data, page_number) ==
    [k \in 1..Len(page_data) |->
        [cipher |-> page_data[k].cipher, bbox |-> page_data[k].bbox,
         confidence |-> page_data[k].confidence,
         original_image_base64 |-> page_data[k].original_image_base64,
         page_number |-> page_number]]

\* the rest of mask_sensitive_text and of process_image_with_mask: the fragments
\* masked and encrypted under the worker's key, the masked image and the page
\* JSON written
PageMask(name) ==
    /\ name \in DOMAIN pool
    /\ pool[name].pc = "encrypt"
    /\ \E task \in {pool[name]} :
       \E res \in {MaskFragments(task.image, task.results, task.keywords, task.key,
                                 Len(task.results))} :
          fs' = Write(fs, (ImageMaskedName(name) :> res.image)
                          @@ (PageJsonName(PageNumberOf(name)) :>
                                  WithPageNumber(res.encrypted_data, PageNumberOf(name))))
    /\ pool' = [pool EXCEPT ![name].pc = "done"]
    /\ UNCHANGED <<enabled, api_key, chatgpt_enabled, linesep, nextKey, runs, last>>

\* run_pdf_processing, steps 3 and 4, once every future is done: the masked images
\* put together and the page JSON files merged; without a masked image the run
\* ends in an error
PdfFinish ==
    /\ DOMAIN pool # {}
    /\ Finished = DOMAIN pool
    /\ \E result \in {[NoOp EXCEPT
                          !.op = "mask_pdf", !.file = PdfUpload, !.json = PdfJsonName,
                          !.failed = {name \in DOMAIN pool : pool[name].pc = "failed"}]} :
          IF MaskedImageFiles(fs) = {}
          THEN /\ last' = [result EXCEPT !.status = "error"]
               /\ fs' = fs
          ELSE \E listing \in ListDirOrders(MaskedImageFiles(fs)) :
               \E pdf \in {images_to_pdf(fs, listing)} :
                  /\ fs' = Write(fs, (PdfMaskedName :> pdf)
                                     @@ (PdfJsonName :>
                                             MergePageJson(fs, Len(fs[PdfUpload]))))
                  /\ last' = [result EXCEPT !.status = "success", !.out = pdf]
    /\ pool' = NoTasks
    /\ runs' = runs + 1
    /\ UNCHANGED <<enabled, api_key, chatgpt_enabled, linesep, nextKey>>

PdfNext ==
    \/ PdfStart
    \/ \E name \in DOMAIN pool : PageRead(name)
    \/ \E name \in DOMAIN pool : PageKeyLoad(name)
    \/ \E name \in DOMAIN pool : PageKeyGenerate(name)
    \/ \E name \in DOMAIN pool : PageMask(name)
    \/ PdfFinish

PdfSpec == PdfInit /\ [][PdfNext]_vars

(***************************************************************************)
(* Properties of the PDF pipeline                                          *)
(***************************************************************************)
\* C6: when a PDF has been processed, every record of the merged mapping is
\* encrypted under the key that is in the key file
SingleKeyPerDocument ==
    (last.op = "mask_pdf" /\ last.status = "success" /\ DOMAIN pool = {})
    => \A k \in 1..Len(fs[PdfJsonName]) : fs[PdfJsonName][k].cipher.key = fs[PdfKeyName]

\* C7: when the masking of one page raised in the first run over a PDF, the run
\* succeeds and the masked PDF has as many pages as the PDF, with the unmasked
\* image of the failed page at its position
FailedPageFallsBack ==
    (last.op = "mask_pdf" /\ runs = 1 /\ Cardinality(last.failed) = 1)
    => /\ last.status = "success"
       /\ Len(last.out) = Len(fs[PdfUpload])
       /\ \A name \in last.failed : last.out[PageNumberOf(name)].image = fs[name]

\* C8: when a PDF has been processed and no page task raised, the pages of the
\* masked PDF are the pages of the PDF, each once, in their order
PageOrderKept ==
    (last.op = "mask_pdf" /\ last.status = "success" /\ last.failed = {})
    => /\ Len(last.out) = Len(fs[PdfUpload])
       /\ \A k \in 1..Len(last.out) :
              last.out[k].name = ImageMaskedName(PageName(k))

\* the payload run_pdf_processing returned for the last run
run_pdf_result ==
    IF last.status = "success"
    THEN [status |-> "success", masked_pdf |-> PdfMaskedName, json_output |-> PdfJsonName,
          key_file |-> PdfKeyName, pages_processed |-> Len(fs[PdfUpload]),
          total_encrypted_items |-> Len(fs[PdfJsonName])]
    ELSE [status |-> "error", message |-> "PDF processing failed"]

\* the fields of the payload of a run in which every page was masked
FullSuccessShape ==
    {"status", "masked_pdf", "json_output", "key_file", "pages_processed",
     "total_encrypted_items"}

\* C16: a run of run_pdf_processing in which a page failed does not return the
\* status and the fields of a fully successful run
PartialFailureObservable ==
    (last.op = "mask_pdf" /\ last.failed # {})
        => ~(run_pdf_result.status = "success" /\ DOMAIN run_pdf_result = FullSuccessShape)


(***************************************************************************)
(* The pixels of an image upload: the loop of mask_sensitive_text from the *)
(* crop of a region to its painting, and decrypt_masked_image_to_bytes.    *)
(* One grey value stands for the three equal channels of a pixel; x.png is *)
(* written and read back without loss.                                     *)
(***************************************************************************)
Max2(a, b) == IF a >= b THEN a ELSE b
Min2(a, b) == IF a <= b THEN a ELSE b

\* image.shape is (rows, columns); the pixel at column x of row y is px[<<x, y>>]
Height(image) == image.shape[1]
Width(image) == image.shape[2]
Pixels(w, h) == (0..(w - 1)) \X (0..(h - 1))

\* numpy, a[start:stop] over n entries: a negative index counts from the end, and
\* both ends are clipped
SliceIndex(i, n) == IF i < 0 THEN Max2(0, n + i) ELSE Min2(i, n)

\* where image[y0:y1, x0:x1] lies: its first column and row, and its size
SliceOf(image, y0, y1, x0, x1) ==
    LET xs == SliceIndex(x0, Width(image))
        xe == SliceIndex(x1, Width(image))
        ys == SliceIndex(y0, Height(image))
        ye == SliceIndex(y1, Height(image))
    IN [x |-> xs, y |-> ys, w |-> Max2(0, xe - xs), h |-> Max2(0, ye - ys)]

\* the pixels of a slice
Crop(image, place) ==
    [shape |-> <<place.h, place.w>>,
     px |-> [p \in Pixels(place.w, place.h) |-> image.px[<<place.x + p[1], place.y + p[2]>>]]]

\* image[slice] = region, the region having the size of the slice
Paste(image, place, region) ==
    [image EXCEPT !.px =
        [p \in DOMAIN @ |->
            IF /\ place.x <= p[1] /\ p[1] < place.x + place.w
               /\ place.y <= p[2] /\ p[2] < place.y + place.h
            THEN region.px[<<p[1] - place.x, p[2] - place.y>>]
            ELSE @[p]]]

\* cv2.rectangle(image, (x_min, y_min), (x_max, y_max), (0, 0, 0), -1): both corners
\* belong to the filled rectangle, which is clipped to the image
rectangle(image, x_min, y_min, x_max, y_max) ==
    [image EXCEPT !.px =
        [p \in DOMAIN @ |->
            IF x_min <= p[1] /\ p[1] <= x_max /\ y_min <= p[2] /\ p[2] <= y_max
            THEN 0 ELSE @[p]]]

\* cv2.GaussianBlur(region, (3, 3), 0.5) on 8-bit pixels: the kernel
\* (0.1065, 0.787, 0.1065) in steps of 1/256, along both axes, the border
\* mirrored without repeating the edge pixel, the sum rounded
GaussianKernel == <<27, 202, 27>>
Reflect101(i, n) == IF n = 1 THEN 0 ELSE IF i < 0 THEN 0 - i ELSE IF i >= n THEN 2 * n - 2 - i ELSE i
BlurAt(region, p) ==
    LET Weighted(dx, dy) ==
            GaussianKernel[dx + 2] * GaussianKernel[dy + 2]
            * region.px[<<Reflect101(p[1] + dx, Width(region)),
                          Reflect101(p[2] + dy, Height(region))>>]
        Row(dy) == Weighted(-1, dy) + Weighted(0, dy) + Weighted(1, dy)
    IN (Row(-1) + Row(0) + Row(1) + 32768) \div 65536
GaussianBlur(region) == [region EXCEPT !.px = [p \in DOMAIN @ |-> BlurAt(region, p)]]

\* mask_region_improved on the pixels: the rectangle painted black, the rectangle
\* with one pixel more on its left and its top blurred, the rectangle painted again
mask_region_improved_px(image, x_min, y_min, x_max, y_max) ==
    LET painted == rectangle(image, x_min, y_min, x_max, y_max)
        border_width == 1
        x_start == Max2(0, x_min - border_width)
        y_start == Max2(0, y_min - border_width)
        x_end == Min2(Width(image), x_max + border_width)
        y_end == Min2(Height(image), y_max + border_width)
        place == SliceOf(painted, y_start, y_end, x_start, x_end)
    IN IF place.w * place.h > 0
       THEN rectangle(Paste(painted, place, GaussianBlur(Crop(painted, place))),
                      x_min, y_min, x_max, y_max)
       ELSE painted

\* cv2.imencode('.png', roi) and base64, and back: the pixels without loss
imencode_png(roi) == [format |-> "png", shape |-> roi.shape, px |-> roi.px]
imdecode(roi_b64) == [shape |-> roi_b64.shape, px |-> roi_b64.px]

\* the loop over the OCR results after its first k rounds, on the pixels: the
\* fragments seen, the records, the image, and whether cv2.imencode raised on an
\* empty region, which ends mask_sensitive_text
RECURSIVE MaskPixels(_, _, _, _, _)
MaskPixels(image, results, keywords, key, k) ==
    IF k = 0 THEN [seen |-> <<>>, encrypted_data |-> <<>>, image |-> image, raised |-> FALSE]
    ELSE LET before == MaskPixels(image, results, keywords, key, k - 1)
             fragment == results[k]
             x_min == XMin(fragment.bbox)
             x_max == XMax(fragment.bbox)
             y_min == YMin(fragment.bbox)
             y_max == YMax(fragment.bbox)
             place == SliceOf(before.image, y_min, y_max, x_min, x_max)
             seen == Append(before.seen, [bbox |-> fragment.bbox, text |-> fragment.text])
         IN IF \/ before.raised
               \/ ~IsMatched(fragment.text, keywords)
               \/ should_ignore_word(fragment.text, IMAGE_IGNORE_WORDS)
               \/ IsSeen(fragment, before.seen)
            THEN before
            ELSE IF place.w * place.h = 0
            THEN [before EXCEPT !.seen = seen, !.raised = TRUE]
            ELSE [seen |-> seen,
                  encrypted_data |->
                      Append(before.encrypted_data,
                             [cipher |-> encrypt_fernet(fragment.text, key),
                              bbox |-> Bbox(x_min, y_min, x_max, y_max),
                              confidence |-> fragment.confidence,
                              original_image_base64 |->
                                  imencode_png(Crop(before.image, place))]),
                  image |-> mask_region_improved_px(before.image, x_min, y_min, x_max, y_max),
                  raised |-> FALSE]

\* the bbox of a record within the image, as both restore loops cut it
ClampedBox(image, bbox) ==
    [x_min |-> Max2(0, XMin(bbox)), y_min |-> Max2(0, YMin(bbox)),
     x_max |-> Min2(Width(image), XMax(bbox)), y_max |-> Min2(Height(image), YMax(bbox))]

\* cv2.resize to the target size: a region of that size is taken as it is; the
\* weights of INTER_LANCZOS4 are not modelled, another size is sampled at the
\* nearest pixel
resize(roi, target_w, target_h) ==
    IF Height(roi) = target_h /\ Width(roi) = target_w THEN roi
    ELSE [shape |-> <<target_h, target_w>>,
          px |-> [p \in Pixels(target_w, target_h) |->
                     roi.px[<<(p[1] * Width(roi)) \div target_w,
                              (p[2] * Height(roi)) \div target_h>>]]]

\* roi_expanded: the ROI at its offset in the expanded area, the rows above and
\* below it and then the columns left and right of it filled with its edge pixels
ExpandRoi(roi_resized, exp_w, exp_h, roi_x_offset, roi_y_offset) ==
    [shape |-> <<exp_h, exp_w>>,
     px |-> [p \in Pixels(exp_w, exp_h) |->
                roi_resized.px[<<Min2(Max2(p[1] - roi_x_offset, 0), Width(roi_resized) - 1),
                                 Min2(Max2(p[2] - roi_y_offset, 0), Height(roi_resized) - 1)>>]]]

\* one round of the loop of decrypt_masked_image_to_bytes: the stored ROI put back
\* over the region widened by one pixel
RestoreRegion(image, entry) ==
    LET roi == imdecode(entry.original_image_base64)
        box == ClampedBox(image, entry.bbox)
        target_h == box.y_max - box.y_min
        target_w == box.x_max - box.x_min
        expand_pixels == 1
        x_min_exp == Max2(0, box.x_min - expand_pixels)
        y_min_exp == Max2(0, box.y_min - expand_pixels)
        x_max_exp == Min2(Width(image), box.x_max + expand_pixels)
        y_max_exp == Min2(Height(image), box.y_max + expand_pixels)
        exp_h == y_max_exp - y_min_exp
        exp_w == x_max_exp - x_min_exp
    IN IF ~(target_h > 0 /\ target_w > 0) THEN image
       ELSE IF exp_h # target_h \/ exp_w # target_w
       THEN Paste(image, SliceOf(image, y_min_exp, y_max_exp, x_min_exp, x_max_exp),
                  ExpandRoi(resize(roi, target_w, target_h), exp_w, exp_h,
                            box.x_min - x_min_exp, box.y_min - y_min_exp))
       ELSE Paste(image, SliceOf(image, box.y_min, box.y_max, box.x_min, box.x_max),
                  resize(roi, target_w, target_h))

RECURSIVE RestoreRegions(_, _, _)
RestoreRegions(image, encrypted_data, k) ==
    IF k = 0 THEN image
    ELSE RestoreRegion(RestoreRegions(image, encrypted_data, k - 1), encrypted_data[k])

\* what cv2.inpaint puts in place of a pixel: a value computed from the pixels
\* around it, not one of the values 0..255 of the model
Inpainted == 256
BlackBelow == 10

\* post_process_decrypted_image: within every record's region the pixels darker
\* than 10 are inpainted
RECURSIVE post_process_decrypted_image(_, _, _)
post_process_decrypted_image(image, encrypted_data, k) ==
    IF k = 0 THEN image
    ELSE LET processed_image == post_process_decrypted_image(image, encrypted_data, k - 1)
             box == ClampedBox(image, encrypted_data[k].bbox)
         IN IF ~(box.y_max - box.y_min > 0 /\ box.x_max - box.x_min > 0) THEN processed_image
            ELSE [processed_image EXCEPT !.px =
                     [p \in DOMAIN @ |->
                         IF /\ box.x_min <= p[1] /\ p[1] < box.x_max
                            /\ box.y_min <= p[2] /\ p[2] < box.y_max
                            /\ @[p] < BlackBelow
                         THEN Inpainted ELSE @[p]]]

decrypt_masked_image_to_bytes(image, encrypted_data) ==
    post_process_decrypted_image(RestoreRegions(image, encrypted_data, Len(encrypted_data)),
                                 encrypted_data, Len(encrypted_data))

(***************************************************************************)
(* The task folder of a PNG upload, pixel by pixel: POST /process runs     *)
(* run_ocr_jpeg on x.png, POST /decrypt returns the restored image.        *)
(***************************************************************************)
RegionUpload == <<"x", "png">>

\* the size of the uploaded images
ImageWidth == 16
ImageHeight == 5

\* the grey values of the uploads: a white page, a gradient, a pattern of black dots
Patterns ==
    { [p \in Pixels(ImageWidth, ImageHeight) |-> 255],
      [p \in Pixels(ImageWidth, ImageHeight) |-> 20 + 10 * p[1] + p[2]],
      [p \in Pixels(ImageWidth, ImageHeight) |-> IF (p[1] + p[2]) % 3 = 0 THEN 0 ELSE 255] }

\* the boxes EasyOCR reports: three nearly in the same place, each a little wider
\* than the one before, one inside them, one apart, one reaching beyond the right
\* edge and one starting left of the image
NearBoxes == <<Bbox(1, 1, 11, 3), Bbox(1, 1, 12, 3), Bbox(1, 1, 13, 3)>>
RegionBoxes ==
    {NearBoxes[k] : k \in 1..3}
    \cup {Bbox(2, 1, 6, 3), Bbox(9, 2, 14, 4), Bbox(10, 1, 18, 3), Bbox(-1, 1, 5, 3)}
EmailTexts == { <<"K","a","d","i","r","@","b",".","m","y">>, <<"K","A","D","I","R","@","B",".","M","Y">> }
RegionTexts == EmailTexts \cup { <<"M","a","l","e">> }
RegionFragments == {Fragment(t, b) : t \in RegionTexts, b \in RegionBoxes}
RegionResults ==
    {<<f>> : f \in RegionFragments}
    \cup {<<f, g>> : f \in RegionFragments, g \in RegionFragments}
    \cup {<<Fragment(t, NearBoxes[1]), Fragment(u, NearBoxes[2]), Fragment(v, NearBoxes[3])>> :
              t \in EmailTexts, u \in EmailTexts, v \in EmailTexts}
RegionImages ==
    {[readable |-> TRUE, frags |-> results, shape |-> <<ImageHeight, ImageWidth>>, px |-> px] :
         results \in RegionResults, px \in Patterns}

RegionInit ==
    /\ enabled = {}
    /\ api_key = FALSE
    /\ chatgpt_enabled = FALSE
    /\ linesep = <<"\n">>
    /\ \E image \in RegionImages : fs = (RegionUpload :> image)
    /\ nextKey = 1
    /\ runs = 0
    /\ last = NoOp
    /\ pool = NoTasks

\* run_ocr_jpeg(image_path, enabled) on the PNG upload: the text read, the values
\* detected in it, the key loaded or generated and written, then the loop over the
\* fragments on the pixels; when the loop raises, the run ends in an error and
\* neither the masked image nor the mapping is written
run_ocr_png(name) ==
    /\ runs < MaxRuns
    /\ name = RegionUpload
    /\ name \in DOMAIN fs
    /\ \E results \in {fs[name].frags} :
       \E full_text \in {FullText(results)} :
       \E presidio_regex_results \in {PresidioRegexResults(full_text, enabled)} :
       \E ner_results \in DetectorOutputs(ImageNerCandidates, full_text) :
       \E chatgpt_results \in {ChatGptResults(full_text, chatgpt_enabled \/ api_key, <<>>)} :
       \E stage1 \in {combine_pii_results(presidio_regex_results, ner_results,
                                          chatgpt_results)} :
       \E det \in {Detection(presidio_regex_results, ner_results, chatgpt_results, stage1)} :
       \E keywords \in {Keywords(FilterPii(det.pii, enabled))} :
       \E key \in {load_or_generate_valid_key(KeyName(name))} :
       \E res \in {MaskPixels([shape |-> fs[name].shape, px |-> fs[name].px], results,
                              keywords, key, Len(results))} :
       \E result \in {[NoOp EXCEPT
                          !.op = "mask_image", !.file = name, !.json = ImageJsonName(name),
                          !.key = key, !.content = full_text, !.presidio = det.presidio,
                          !.ner = det.ner, !.chatgpt = det.chatgpt, !.stage1 = det.stage1,
                          !.pii = det.pii, !.keywords = keywords]} :
          /\ nextKey' = IF key = nextKey THEN nextKey + 1 ELSE nextKey
          /\ IF res.raised
             THEN /\ fs' = Write(fs, (KeyName(name) :> key))
                  /\ last' = [result EXCEPT !.status = "error"]
             ELSE /\ fs' = Write(fs, (ImageMaskedName(name) :>
                                          [readable |-> TRUE, shape |-> res.image.shape,
                                           px |-> res.image.px])
                                     @@ (ImageJsonName(name) :> res.encrypted_data)
                                     @@ (KeyName(name) :> key))
                  /\ last' = [result EXCEPT !.status = "success", !.out = res.encrypted_data]
    /\ runs' = runs + 1
    /\ UNCHANGED <<enabled, api_key, chatgpt_enabled, linesep, pool>>

\* POST /decrypt with the masked image, its mapping and a key file: Fernet(key)
\* raises on bytes that are no key; else the restored image is returned: last.out
decrypt_masked_image(masked_name, key) ==
    /\ masked_name = ImageMaskedName(RegionUpload)
    /\ masked_name \in DOMAIN fs
    /\ key \in UserKeys
    /\ \E result \in {[NoOp EXCEPT !.op = "restore_image", !.file = masked_name,
                                   !.json = ImageJsonName(RegionUpload), !.key = key]} :
          last' = IF key = MalformedKey
                  THEN [result EXCEPT !.status = "error"]
                  ELSE [result EXCEPT
                           !.status = "success",
                           !.out = decrypt_masked_image_to_bytes(
                                       [shape |-> fs[masked_name].shape,
                                        px |-> fs[masked_name].px],
                                       fs[ImageJsonName(RegionUpload)])]
    /\ UNCHANGED <<enabled, api_key, chatgpt_enabled, linesep, fs, nextKey, runs, pool>>

RegionNext ==
    \/ \E name \in DOMAIN fs : run_ocr_png(name)
    \/ \E masked_name \in DOMAIN fs, key \in UserKeys : decrypt_masked_image(masked_name, key)

RegionSpec == RegionInit /\ [][RegionNext]_vars

\* the fragment passes the keyword test and the ignore list of the loop
IsMaskable(fragment, keywords) ==
    IsMatched(fragment.text, keywords) /\ ~should_ignore_word(fragment.text, IMAGE_IGNORE_WORDS)

\* the records written for the box of one of two fragments
RecordsOf(encrypted_data, first, second) ==
    {k \in 1..Len(encrypted_data) :
         encrypted_data[k].bbox \in {RecordBbox(first.bbox), RecordBbox(second.bbox)}}

\* C11: of two matched fragments of an image in nearly the same box (IoU above 0.85)
\* and with the same text, case ignored, one record is written, that of the first
RegionDedup ==
    (last.op = "mask_image" /\ last.status = "success" /\ last.file = RegionUpload) =>
        \A i, j \in 1..Len(fs[RegionUpload].frags) :
            (/\ i < j
             /\ IsMaskable(fs[RegionUpload].frags[i], last.keywords)
             /\ IsMaskable(fs[RegionUpload].frags[j], last.keywords)
             /\ IsDuplicateBox(fs[RegionUpload].frags[i].bbox, fs[RegionUpload].frags[j].bbox)
             /\ StrLower(fs[RegionUpload].frags[i].text) = StrLower(fs[RegionUpload].frags[j].text))
            => /\ Cardinality(RecordsOf(fs[last.json], fs[RegionUpload].frags[i],
                                        fs[RegionUpload].frags[j])) = 1
               /\ \A k \in RecordsOf(fs[last.json], fs[RegionUpload].frags[i],
                                     fs[RegionUpload].frags[j]) :
                      /\ fs[last.json][k].bbox = RecordBbox(fs[RegionUpload].frags[i].bbox)
                      /\ fs[last.json][k].cipher.plain = fs[RegionUpload].frags[i].text

\* the pixel lies in no box of the mapping
OutsideRecords(p, encrypted_data) ==
    \A k \in 1..Len(encrypted_data) :
        ~(/\ XMin(encrypted_data[k].bbox) <= p[1] /\ p[1] <= XMax(encrypted_data[k].bbox)
          /\ YMin(encrypted_data[k].bbox) <= p[2] /\ p[2] <= YMax(encrypted_data[k].bbox))

\* C15: the pixels outside the boxes of the mapping are those of the upload, in the
\* masked image and in the image restored from it
FrameKept ==
    /\ (last.op = "mask_image" /\ last.status = "success" /\ last.file = RegionUpload) =>
           \A p \in Pixels(ImageWidth, ImageHeight) :
               OutsideRecords(p, fs[last.json]) =>
                   fs[ImageMaskedName(RegionUpload)].px[p] = fs[RegionUpload].px[p]
    /\ (last.op = "restore_image" /\ last.status = "success") =>
           \A p \in Pixels(ImageWidth, ImageHeight) :
               OutsideRecords(p, fs[last.json]) => last.out.px[p] = fs[RegionUpload].px[p]

\* C19: the bbox of every record lies within the image
BboxWithinBounds ==
    (last.op = "mask_image" /\ last.status = "success" /\ last.file = RegionUpload) =>
        \A k \in 1..Len(fs[last.json]) :
            /\ 0 <= XMin(fs[last.json][k].bbox)
            /\ XMax(fs[last.json][k].bbox) <= Width(fs[RegionUpload])
            /\ 0 <= YMin(fs[last.json][k].bbox)
            /\ YMax(fs[last.json][k].bbox) <= Height(fs[RegionUpload])


(***************************************************************************)
(* Restoring a masked PDF: POST /decrypt with x.masked.pdf, its mapping and *)
(* a key file runs decrypt_masked_pdf.  The pages are taken as the rasters *)
(* they hold; the rounding of the JPEG files in between is left out.       *)
(***************************************************************************)
\* bbox lies within the box of a record
InsideBox(bbox, record_bbox) ==
    /\ XMin(record_bbox) <= XMin(bbox) /\ XMax(bbox) <= XMax(record_bbox)
    /\ YMin(record_bbox) <= YMin(bbox) /\ YMax(bbox) <= YMax(record_bbox)

\* one round of the loop of decrypt_masked_image_to_bytes on what is to be read in
\* the image: the stored region is put over the box of the record, whatever was there
RestoreFragment(image, entry) ==
    [image EXCEPT
        !.black = {b \in @ : ~InsideBox(b, entry.bbox)},
        !.frags = SelectSeq(@, LAMBDA f : ~InsideBox(f.bbox, entry.bbox))
                  \o entry.original_image_base64]

RECURSIVE RestoreFragments(_, _, _)
RestoreFragments(image, encrypted_data, k) ==
    IF k = 0 THEN image
    ELSE RestoreFragment(RestoreFragments(image, encrypted_data, k - 1), encrypted_data[k])

\* the mapping has an entry with a page number
has_page_info(all_encrypted_data) ==
    \E k \in 1..Len(all_encrypted_data) : "page_number" \in DOMAIN all_encrypted_data[k]

\* entry.get('page_number', 1)
PageNumOf(entry) == IF "page_number" \in DOMAIN entry THEN entry.page_number ELSE 1

\* pages_data.get(page_number, []): with page numbers the entries of the page, and
\* without any the whole mapping for page 1 and nothing for the other pages
PageData(all_encrypted_data, page_number) ==
    IF has_page_info(all_encrypted_data)
    THEN SelectSeq(all_encrypted_data, LAMBDA entry : PageNumOf(entry) = page_number)
    ELSE IF page_number = 1 THEN all_encrypted_data ELSE <<>>

\* the pages of the documents that were masked: the address alone, in one of two
\* places, in both, or a page without anything to mask
MaskedAddress == <<"K","a","d","i","r","@","b",".","m","y">>
RestorePageImages ==
    { Readable(<<Fragment(MaskedAddress, FirstBox)>>),
      Readable(<<Fragment(MaskedAddress, Bbox(0, 40, 100, 60))>>),
      Readable(<<Fragment(MaskedAddress, FirstBox), Fragment(MaskedAddress, Bbox(0, 40, 100, 60))>>),
      Readable(<<Fragment(<<"M","a","l","e">>, FirstBox)>>) }
MaxRestorePages == 3
RestorePdfs ==
    UNION {[1..n -> RestorePageImages] : n \in 1..MaxRestorePages}

\* a page as mask_sensitive_text leaves it, under key 1
MaskedPage(image) ==
    MaskFragments(image, readtext(image), {MaskedAddress}, 1, Len(readtext(image)))

\* the merged mapping of the pages from page number i on: with the page number in
\* every entry, or in the older format without it
RECURSIVE MergedMapping(_, _, _)
MergedMapping(pdf, i, numbered) ==
    IF i > Len(pdf) THEN <<>>
    ELSE (IF numbered THEN WithPageNumber(MaskedPage(pdf[i]).encrypted_data, i)
          ELSE MaskedPage(pdf[i]).encrypted_data)
         \o MergedMapping(pdf, i + 1, numbered)

PdfRestoreInit ==
    /\ enabled = {}
    /\ api_key = FALSE
    /\ chatgpt_enabled = FALSE
    /\ linesep = <<"\n">>
    /\ \E pdf \in RestorePdfs, numbered \in BOOLEAN :
          fs = (PdfMaskedName :> [n \in 1..Len(pdf) |-> MaskedPage(pdf[n]).image])
               @@ (PdfJsonName :> MergedMapping(pdf, 1, numbered))
               @@ (PdfKeyName :> 1)
    /\ nextKey = 2
    /\ runs = 1
    /\ last = NoOp
    /\ pool = NoTasks

\* decrypt_masked_pdf(masked_pdf, json, key): the mapping split by page, every page
\* restored with the entries of page_<n>.json; a page on which
\* decrypt_masked_image_to_bytes raises, as Fernet(key) does on bytes that are no
\* key, is kept as it is.  last.out holds the page JSON files and the pages returned
decrypt_masked_pdf(key) ==
    /\ PdfMaskedName \in DOMAIN fs /\ PdfJsonName \in DOMAIN fs
    /\ key \in UserKeys
    /\ \E all_encrypted_data \in {fs[PdfJsonName]}, pages \in {fs[PdfMaskedName]} :
       \E page_json \in {[n \in 1..Len(pages) |-> PageData(all_encrypted_data, n)]} :
       \E decrypted_images \in
              {[n \in 1..Len(pages) |->
                   IF key = MalformedKey THEN pages[n]
                   ELSE RestoreFragments(pages[n], page_json[n], Len(page_json[n]))]} :
          last' = [NoOp EXCEPT
                      !.op = "restore_pdf", !.file = PdfMaskedName, !.json = PdfJsonName,
                      !.key = key,
                      !.status = IF decrypted_images = <<>> THEN "error" ELSE "success",
                      !.out = [page_json |-> page_json,
                               decrypted_images |-> decrypted_images]]
    /\ UNCHANGED <<enabled, api_key, chatgpt_enabled, linesep, fs, nextKey, runs, pool>>

PdfRestoreNext == \E key \in UserKeys : decrypt_masked_pdf(key)

PdfRestoreSpec == PdfRestoreInit /\ [][PdfRestoreNext]_vars

\* C18: a mapping without page numbers is applied whole to every page, and of a
\* mapping with page numbers every page gets the entries with its number
PageMappingApplied ==
    (last.op = "restore_pdf" /\ last.status = "success") =>
        \A n \in 1..Len(fs[PdfMaskedName]) :
            last.out.page_json[n] =
                IF has_page_info(fs[PdfJsonName])
                THEN SelectSeq(fs[PdfJsonName], LAMBDA entry : entry.page_number = n)
                ELSE fs[PdfJsonName]


(***************************************************************************)
(* The task folder of a CSV upload: POST /process runs run_text_processing *)
(* on x.csv, which takes the branch of process_csv_optimized.              *)
(***************************************************************************)
CsvUpload == <<"x", "csv">>
CsvMaskedName(name) == BaseName(name) \o <<"masked", "csv">>

\* text.split(sep) for a separator of one character
RECURSIVE SplitOn(_, _)
SplitOn(text, sep) ==
    IF \A i \in 1..Len(text) : text[i] # sep THEN <<text>>
    ELSE LET first == CHOOSE i \in 1..Len(text) :
                 text[i] = sep /\ \A j \in 1..(i - 1) : text[j] # sep
         IN <<SubSeq(text, 1, first - 1)>> \o SplitOn(SubSeq(text, first + 1, Len(text)), sep)

\* pd.read_csv(path, dtype=str).fillna("") of a file without quotes: blank lines
\* skipped, the first line the column names, the other lines the rows of cells
read_csv(text) ==
    LET lines == SelectSeq(SplitOn(text, "\n"), LAMBDA line : line # <<>>)
    IN [columns |-> SplitOn(lines[1], ","),
        rows |-> [i \in 1..(Len(lines) - 1) |-> SplitOn(lines[i + 1], ",")]]

\* df.replace(pii_value, tag, regex=False): the cells equal to the value are replaced
df_replace(df, pii_value, tag) ==
    [df EXCEPT !.rows =
        [i \in 1..Len(@) |->
            [j \in 1..Len(@[i]) |-> IF @[i][j] = pii_value THEN tag ELSE @[i][j]]]]

RECURSIVE ReplaceCells(_, _, _)
ReplaceCells(df, sorted_pii_items, k) ==
    IF k = 0 THEN df
    ELSE df_replace(ReplaceCells(df, sorted_pii_items, k - 1),
                    sorted_pii_items[k].original, sorted_pii_items[k].masked)

\* df.to_csv(path, index=False): the column names and the rows, the cells joined by
\* commas, every line ended by os.linesep
to_csv(df, line_end) ==
    Concat([i \in 1..(Len(df.rows) + 1) |->
               Join(<<",">>, IF i = 1 THEN df.columns ELSE df.rows[i - 1]) \o line_end])

\* process_csv_optimized for the detections of the whole file
process_csv_optimized(full_content, all_pii_list, key) ==
    LET mapping == BuildMapping(all_pii_list, key, {})
    IN [mapping |-> mapping,
        df |-> ReplaceCells(read_csv(full_content),
                            SortByLenDesc(mapping,
                                          [i \in 1..Len(mapping) |-> Len(mapping[i].original)]),
                            Len(mapping))]

\* the cells of the uploads: an address alone in its cell, an address after a
\* word, a place, an empty cell
CsvCells ==
    { <<"A","@","b",".","m","y">>, <<"t","o"," ","A","@","b",".","m","y">>,
      <<"P","e","r","a","k">>, <<>> }
CsvColumns == << <<"n">>, <<"c">> >>
MaxCsvRows == 2
CsvRows == {<<a, b>> : a \in CsvCells, b \in CsvCells}
CsvFiles ==
    {to_csv([columns |-> CsvColumns, rows |-> rows], <<"\n">>) :
         rows \in UNION {[1..n -> CsvRows] : n \in 1..MaxCsvRows}}

CsvInit ==
    /\ enabled \in EnabledSets
    /\ api_key = FALSE
    /\ chatgpt_enabled = FALSE
    /\ linesep \in LineSeps
    /\ \E file \in CsvFiles : fs = (CsvUpload :> file)
    /\ nextKey = 1
    /\ runs = 0
    /\ last = NoOp
    /\ pool = NoTasks

\* run_text_processing(file_path, enabled) on a .csv file: a fresh key, the values
\* detected in the text of the whole file, the cells replaced, the three files written
run_csv_processing(name) ==
    /\ runs < MaxRuns
    /\ name \in DOMAIN fs
    /\ Ext(name) = "csv"
    /\ name = CsvUpload
    /\ \E full_content \in {ReadText(fs[name])} :
       \E presidio_regex_results \in {PresidioRegexResults(full_content, enabled)} :
       \E ner_results \in DetectorOutputs(NerCandidates, full_content) :
       \E chatgpt_results \in {ChatGptResults(full_content, chatgpt_enabled \/ api_key, <<>>)} :
       \E stage1 \in {combine_pii_results(presidio_regex_results, ner_results,
                                          chatgpt_results)} :
       \E det \in {Detection(presidio_regex_results, ner_results, chatgpt_results, stage1)} :
       \E res \in {process_csv_optimized(full_content, det.pii, nextKey)} :
          /\ fs' = Write(fs, (CsvMaskedName(name) :> to_csv(res.df, linesep))
                             @@ (JsonName(name) :> JsonDump(res.mapping))
                             @@ (KeyName(name) :> nextKey))
          /\ last' = [NoOp EXCEPT
                         !.op = "mask", !.file = name, !.json = JsonName(name),
                         !.key = nextKey, !.status = "success", !.content = full_content,
                         !.presidio = det.presidio, !.ner = det.ner,
                         !.chatgpt = det.chatgpt, !.stage1 = det.stage1, !.pii = det.pii,
                         !.out = to_csv(res.df, <<"\n">>)]
    /\ nextKey' = nextKey + 1
    /\ runs' = runs + 1
    /\ UNCHANGED <<enabled, api_key, chatgpt_enabled, linesep, pool>>

CsvNext == \E name \in DOMAIN fs : run_csv_processing(name)

CsvSpec == CsvInit /\ [][CsvNext]_vars

\* the text between the tags of a masked surface
OutsideTags(text) ==
    Concat([i \in 1..Len(ReSplit(TagPattern, text)) |->
               IF i % 2 = 1 THEN ReSplit(TagPattern, text)[i] ELSE <<"]">>])

\* C20: no original of the mapping is left in the masked file outside the tags
MaskingCovers ==
    (last.op = "mask" /\ last.status = "success") =>
        \A k \in 1..Len(JsonLoad(fs[last.json])) :
            ~IsSubstr(JsonLoad(fs[last.json])[k].original, OutsideTags(last.out))


\* C21: no original of the mapping is left in the masked text outside the tags, in
\* whatever letter case it is written there
MaskingCoversAnyCase ==
    (last.op = "mask" /\ last.status = "success" /\ last.file = Upload) =>
        \A k \in 1..Len(JsonLoad(fs[last.json])) :
            ~IsSubstr(StrLower(JsonLoad(fs[last.json])[k].original),
                      StrLower(OutsideTags(last.out)))


(***************************************************************************)
(* A task folder with two uploads of the same base name, x.txt and x.csv:  *)
(* process_task runs run_text_processing on each file of the folder, in    *)
(* the order of os.listdir.                                                *)
(***************************************************************************)
TaskTexts ==
    { <<"A","@","b",".","m","y">>, <<"P","e","r","a","k">>,
      <<"A","@","b",".","m","y"," ","P","e","r","a","k">> }
TaskCsvFiles ==
    {to_csv([columns |-> CsvColumns, rows |-> <<row>>], <<"\n">>) : row \in CsvRows}

TaskInit ==
    /\ enabled \in EnabledSets
    /\ api_key = FALSE
    /\ chatgpt_enabled = FALSE
    /\ linesep = <<"\n">>
    /\ \E text \in TaskTexts, file \in TaskCsvFiles :
          fs = (Upload :> text) @@ (CsvUpload :> file)
    /\ nextKey = 1
    /\ runs = 0
    /\ last = NoOp
    /\ pool = NoTasks

TaskNext ==
    \/ \E name \in DOMAIN fs : run_text_processing(name)
    \/ \E name \in DOMAIN fs : run_csv_processing(name)
    \/ \E masked_name \in DOMAIN fs, key \in UserKeys :
           decrypt_masked_file(masked_name, key)

TaskSpec == TaskInit /\ [][TaskNext]_vars

\* the tags in a text
TagsOf(text) ==
    {ReSplit(TagPattern, text)[i] : i \in {j \in 1..Len(ReSplit(TagPattern, text)) : j % 2 = 0}}

\* the masked file written for a document
MaskedFileOf(name) == IF Ext(name) = "csv" THEN CsvMaskedName(name) ELSE MaskedName(name)

\* C22: every document of the task that was masked can be restored from the mapping
\* file reported for it: the tags put into its masked file have their records there
DocumentsRestorable ==
    \A name \in {Upload, CsvUpload} \cap DOMAIN fs :
        MaskedFileOf(name) \in DOMAIN fs =>
            \A tag \in TagsOf(ReadText(fs[MaskedFileOf(name)])) \ TagsOf(ReadText(fs[name])) :
                \E k \in 1..Len(JsonLoad(fs[JsonName(name)])) :
                    JsonLoad(fs[JsonName(name)])[k].masked = tag


\* the page JSON file the worker of an image writes
FragmentFileOf(name) == PageJsonName(PageNumberOf(name))

\* C23: no two workers of a run write the same page JSON file
OwnFragmentPerWorker ==
    \A name \in DOMAIN pool, other \in DOMAIN pool :
        name # other => FragmentFileOf(name) # FragmentFileOf(other)


\* the pixels of the image that mask_region_improved paints black for a box
PaintedFor(bbox) ==
    {p \in Pixels(ImageWidth, ImageHeight) :
         /\ XMin(bbox) <= p[1] /\ p[1] <= XMax(bbox)
         /\ YMin(bbox) <= p[2] /\ p[2] <= YMax(bbox)}

\* C24: the patch stored with every record holds, for every pixel painted for the
\* record, the value the pixel has in the upload
PatchHoldsOriginal ==
    (last.op = "mask_image" /\ last.status = "success" /\ last.file = RegionUpload) =>
        \A k \in 1..Len(fs[last.json]) :
            \A p \in PaintedFor(fs[last.json][k].bbox) :
                /\ <<p[1] - XMin(fs[last.json][k].bbox), p[2] - YMin(fs[last.json][k].bbox)>>
                       \in DOMAIN fs[last.json][k].original_image_base64.px
                /\ fs[last.json][k].original_image_base64.px[
                       <<p[1] - XMin(fs[last.json][k].bbox),
                         p[2] - YMin(fs[last.json][k].bbox)>>] = fs[RegionUpload].px[p]

\* the same for the pixels the patch holds: each has the value of the upload
PatchPixelsOriginal ==
    (last.op = "mask_image" /\ last.status = "success" /\ last.file = RegionUpload) =>
        \A k \in 1..Len(fs[last.json]) :
            \A q \in DOMAIN fs[last.json][k].original_image_base64.px :
                fs[last.json][k].original_image_base64.px[q]
                    = fs[RegionUpload].px[<<q[1] + XMin(fs[last.json][k].bbox),
                                            q[2] + YMin(fs[last.json][k].bbox)>>]


\* the box of the fragment cuts no pixel out of the image
IsEmptyRegion(image, fragment) ==
    SliceOf(image, YMin(fragment.bbox), YMax(fragment.bbox),
            XMin(fragment.bbox), XMax(fragment.bbox)).w
    * SliceOf(image, YMin(fragment.bbox), YMax(fragment.bbox),
              XMin(fragment.bbox), XMax(fragment.bbox)).h = 0

\* C29: when a matched fragment of the image has an empty region, the run still
\* succeeds and writes the masked image and the mapping
EmptyRegionSkipped ==
    (/\ last.op = "mask_image" /\ last.file = RegionUpload
     /\ \E i \in 1..Len(fs[RegionUpload].frags) :
            /\ IsMaskable(fs[RegionUpload].frags[i], last.keywords)
            /\ IsEmptyRegion(fs[RegionUpload], fs[RegionUpload].frags[i]))
    => /\ last.status = "success"
       /\ ImageMaskedName(RegionUpload) \in DOMAIN fs
       /\ ImageJsonName(RegionUpload) \in DOMAIN fs


\* the pixels painted for the records of a mapping
PaintedBy(encrypted_data) ==
    UNION {PaintedFor(encrypted_data[k].bbox) : k \in 1..Len(encrypted_data)}

\* the loop of mask_sensitive_text over the fragments of the upload with the
\* fragments i and i + 1 exchanged
MaskSwapped(i) ==
    MaskPixels([shape |-> fs[RegionUpload].shape, px |-> fs[RegionUpload].px],
               SwapAt(fs[RegionUpload].frags, i), last.keywords, last.key,
               Len(fs[RegionUpload].frags))

\* C25: with two neighbouring fragments of the OCR list exchanged, the loop writes
\* as many records
MaskOrderFree ==
    (last.op = "mask_image" /\ last.status = "success" /\ last.file = RegionUpload) =>
        \A i \in 1..(Len(fs[RegionUpload].frags) - 1) :
            Len(MaskSwapped(i).encrypted_data) = Len(fs[last.json])

\* and it paints the same pixels
PaintedOrderFree ==
    (last.op = "mask_image" /\ last.status = "success" /\ last.file = RegionUpload) =>
        \A i \in 1..(Len(fs[RegionUpload].frags) - 1) :
            PaintedBy(MaskSwapped(i).encrypted_data) = PaintedBy(fs[last.json])



(***************************************************************************)
(* Masking a DOCX upload: process_task runs run_docx_processing on y.docx. *)
(* The document is the list of the texts of its paragraphs.                *)
(***************************************************************************)
DocxUpload == <<"y", "docx">>
\* docx_path.replace(".docx", ...)
DocxMaskedName(name) == BaseName(name) \o <<"masked", "docx">>

\* full_text of mask_docx_sensitive_text: every paragraph followed by "\n"
RECURSIVE DocxFullText(_)
DocxFullText(paragraphs) ==
    IF paragraphs = <<>> THEN <<>>
    ELSE paragraphs[1] \o <<"\n">> \o DocxFullText(Tail(paragraphs))

\* the key mask_docx_sensitive_text reads or generates: the bytes of the key file
\* as they are when the file exists, else a fresh key
DocxKey(key_path) == IF key_path \in DOMAIN fs THEN fs[key_path] ELSE nextKey

\* the paragraphs after the replacement: a paragraph of blanks is left alone
DocxMaskParagraphs(paragraphs, mapping) ==
    [k \in 1..Len(paragraphs) |->
        IF StrStrip(paragraphs[k]) # <<>> THEN MaskText(paragraphs[k], mapping)
        ELSE paragraphs[k]]

\* the uploads: one or two paragraphs
DocxParagraphs == TaskTexts \cup {<<>>}
DocxFiles == {<<a>> : a \in DocxParagraphs} \cup {<<a, b>> : a \in DocxParagraphs, b \in DocxParagraphs}

\* the task folder holds the upload and, from an earlier request, no key file, a
\* key file with a key, or a key file whose bytes are no key
DocxInit ==
    /\ enabled \in EnabledSets
    /\ api_key = FALSE
    /\ chatgpt_enabled = FALSE
    /\ linesep = <<"\n">>
    /\ \E document \in DocxFiles :
          \/ fs = (DocxUpload :> document) /\ nextKey = 1
          \/ fs = (DocxUpload :> document) @@ (KeyName(DocxUpload) :> 1) /\ nextKey = 2
          \/ fs = (DocxUpload :> document) @@ (KeyName(DocxUpload) :> MalformedKey)
             /\ nextKey = 1
    /\ runs = 0
    /\ last = NoOp
    /\ pool = NoTasks

\* run_docx_processing(docx_path, enabled): the key read or generated and written,
\* Fernet(key), which raises on bytes that are no key, the values detected in the
\* full text, the paragraphs masked, the masked document and the mapping written;
\* an exception gives the status error
run_docx_processing(name) ==
    /\ runs < MaxRuns
    /\ name = DocxUpload
    /\ name \in DOMAIN fs
    /\ \E key \in {DocxKey(KeyName(name))} :
       \E with_key \in {Write(fs, (KeyName(name) :> key))} :
       \E full_text \in {DocxFullText(fs[name])} :
       \E presidio_regex_results \in {PresidioRegexResults(full_text, enabled)} :
       \E ner_results \in DetectorOutputs(NerCandidates, full_text) :
       \E chatgpt_results \in {ChatGptResults(full_text, chatgpt_enabled \/ api_key, <<>>)} :
       \E stage1 \in {combine_pii_results(presidio_regex_results, ner_results,
                                          chatgpt_results)} :
       \E det \in {Detection(presidio_regex_results, ner_results, chatgpt_results, stage1)} :
       \E mapping \in {BuildMapping(det.pii, key, {})} :
       \E result \in {[NoOp EXCEPT
                          !.op = "mask_docx", !.file = name, !.json = JsonName(name),
                          !.key = key]} :
          /\ nextKey' = IF key = nextKey THEN nextKey + 1 ELSE nextKey
          /\ IF key = MalformedKey
             THEN /\ fs' = with_key
                  /\ last' = [result EXCEPT !.status = "error"]
             ELSE /\ fs' = Write(with_key,
                                 (DocxMaskedName(name) :> DocxMaskParagraphs(fs[name], mapping))
                                 @@ (JsonName(name) :> JsonDump(mapping)))
                  /\ last' = [result EXCEPT
                                 !.status = "success", !.content = full_text,
                                 !.presidio = det.presidio, !.ner = det.ner,
                                 !.chatgpt = det.chatgpt, !.stage1 = det.stage1,
                                 !.pii = det.pii,
                                 !.out = DocxMaskParagraphs(fs[name], mapping)]
    /\ runs' = runs + 1
    /\ UNCHANGED <<enabled, api_key, chatgpt_enabled, linesep, pool>>

DocxNext == \E name \in DOMAIN fs : run_docx_processing(name)

DocxSpec == DocxInit /\ [][DocxNext]_vars

\* C26: a masking run that finds no key file, or a key file whose bytes are no key,
\* succeeds and leaves a well-formed key, the one it used, in the key file
InvalidKeyRegenerated ==
    [][(/\ runs' = runs + 1
        /\ \/ KeyName(DocxUpload) \notin DOMAIN fs
           \/ fs[KeyName(DocxUpload)] = MalformedKey)
       => /\ last'.status = "success"
          /\ KeyName(DocxUpload) \in DOMAIN fs'
          /\ fs'[KeyName(DocxUpload)] # MalformedKey
          /\ fs'[KeyName(DocxUpload)] = last'.key]_vars



(***************************************************************************)
(* The two endpoints by file type: process_task sends every file of the    *)
(* task folder to the handler of its extension, POST /decrypt sends a      *)
(* masked file to the restore routine of its extension.  Only the routing  *)
(* and the names of the files written are modelled here; a file is the     *)
(* record of the handler that wrote it.                                    *)
(***************************************************************************)
RouteExtensions ==
    {"jpg", "jpeg", "png", "webp", "pdf", "txt", "csv", "docx", "xlsx", "xls", "md"}
RouteUploads == {<<"x", ext>> : ext \in RouteExtensions}
UploadedFile == [handler |-> "upload", of |-> None]

\* the handler process_task calls for an extension
MaskHandler(ext) ==
    IF ext \in {"jpg", "jpeg", "png", "webp"} THEN "run_ocr_jpeg"
    ELSE IF ext \in {"pdf"} THEN "run_pdf_processing"
    ELSE IF ext \in {"txt", "csv"} THEN "run_text_processing"
    ELSE IF ext \in {"docx"} THEN "run_docx_processing"
    ELSE IF ext \in {"xlsx", "xls"} THEN "run_xlsx_processing"
    ELSE "unsupported"

\* the masked file each handler writes for an upload: name_masked.ext for an image,
\* base.masked.ext else.  mask_xlsx_sensitive_text replaces ".xlsx" in the path, so
\* for x.xls the key path is the workbook itself, Fernet raises on its bytes and
\* nothing is written
RouteMaskedName(name) == BaseName(name) \o <<"masked", Ext(name)>>
WritesMasked(name) == MaskHandler(Ext(name)) # "unsupported" /\ Ext(name) # "xls"

\* the routine decrypt_file calls for the extension of the masked file
RestoreRoutine(ext) ==
    IF ext \in {"jpg", "jpeg", "png"} THEN "decrypt_masked_image_to_bytes"
    ELSE IF ext \in {"txt", "csv"} THEN "decrypt_masked_file"
    ELSE IF ext \in {"pdf"} THEN "decrypt_masked_pdf"
    ELSE IF ext \in {"docx"} THEN "decrypt_masked_docx"
    ELSE "unsupported"

\* the task folder holds one or two uploads
RouteInit ==
    /\ enabled = {}
    /\ api_key = FALSE
    /\ chatgpt_enabled = FALSE
    /\ linesep = <<"\n">>
    /\ \E first \in RouteUploads, second \in RouteUploads :
          fs = (first :> UploadedFile) @@ (second :> UploadedFile)
    /\ nextKey = 1
    /\ runs = 0
    /\ last = NoOp
    /\ pool = NoTasks

\* one round of the loop of process_task: the file sent to its handler, the masked
\* file written under the name the handler gives it
process_task(name) ==
    /\ runs < MaxRuns
    /\ name \in DOMAIN fs
    /\ fs[name] = UploadedFile
    /\ \E result \in {[NoOp EXCEPT !.op = MaskHandler(Ext(name)), !.file = name]} :
          IF WritesMasked(name)
          THEN /\ fs' = Write(fs, (RouteMaskedName(name) :>
                                      [handler |-> MaskHandler(Ext(name)), of |-> name]))
               /\ last' = [result EXCEPT !.status = "success"]
          ELSE /\ fs' = fs
               /\ last' = [result EXCEPT !.status = "error"]
    /\ runs' = runs + 1
    /\ UNCHANGED <<enabled, api_key, chatgpt_enabled, linesep, nextKey, pool>>

\* POST /decrypt with a masked file: the routine of its extension is called, or the
\* request is answered with 400, unsupported file type
decrypt_file(masked_name) ==
    /\ masked_name \in DOMAIN fs
    /\ fs[masked_name] # UploadedFile
    /\ last' = [NoOp EXCEPT
                   !.op = "decrypt_file", !.file = masked_name,
                   !.status = IF RestoreRoutine(Ext(masked_name)) = "unsupported"
                              THEN "unsupported" ELSE "dispatched",
                   !.out = <<RestoreRoutine(Ext(masked_name))>>]
    /\ UNCHANGED <<enabled, api_key, chatgpt_enabled, linesep, fs, nextKey, runs, pool>>

RouteNext ==
    \/ \E name \in DOMAIN fs : process_task(name)
    \/ \E masked_name \in DOMAIN fs : decrypt_file(masked_name)

RouteSpec == RouteInit /\ [][RouteNext]_vars

\* C27: a masked file that process_task wrote is never answered by the decrypt
\* endpoint as an unsupported file type
RestoreSymmetric ==
    (last.op = "decrypt_file" /\ fs[last.file] # UploadedFile) => last.status = "dispatched"



(***************************************************************************)
(* The sizes of the page rasters: a PDF is the list of the sizes of its    *)
(* pages in points, a raster is its size in pixels.  run_pdf_processing    *)
(* rasterizes the upload, masks the rasters and saves them as the masked   *)
(* PDF; decrypt_masked_pdf rasterizes the masked PDF.                      *)
(***************************************************************************)
PointsPerInch == 72
MaskDpi == 100
RestoreDpi == 150
CeilDiv(a, b) == (a + b - 1) \div b

\* pdf2image.convert_from_path(pdf, dpi): pdftoppm gives a page of w x h points
\* ceil(w * dpi / 72) x ceil(h * dpi / 72) pixels
convert_from_path(pdf, dpi) ==
    [k \in 1..Len(pdf) |->
        [w |-> CeilDiv(pdf[k].w * dpi, PointsPerInch),
         h |-> CeilDiv(pdf[k].h * dpi, PointsPerInch)]]

\* PIL, image_list[0].save(pdf, save_all=True, append_images=...): no resolution is
\* given, so a page has the size of its image at 72 pixels per inch
save_as_pdf(image_list) ==
    [k \in 1..Len(image_list) |->
        [w |-> (image_list[k].w * PointsPerInch) \div PointsPerInch,
         h |-> (image_list[k].h * PointsPerInch) \div PointsPerInch]]

\* the uploads: one page or more, each of one of these sizes in points
PageSizes == {[w |-> w, h |-> h] : w \in {72, 595, 612}, h \in {72, 792}}
RasterPdfs == UNION {[1..n -> PageSizes] : n \in 1..MaxPages}

RasterInit ==
    /\ enabled = {}
    /\ api_key = FALSE
    /\ chatgpt_enabled = FALSE
    /\ linesep = <<"\n">>
    /\ \E pdf \in RasterPdfs : fs = (PdfUpload :> pdf)
    /\ nextKey = 1
    /\ runs = 0
    /\ last = NoOp
    /\ pool = NoTasks

\* run_pdf_processing on the sizes: pdf_to_images at its default dpi writes page_i.jpg,
\* mask_sensitive_text writes page_i_masked.jpg of the same size, images_to_pdf
\* saves the masked images as d.masked.pdf
run_pdf_processing(name) ==
    /\ runs < MaxRuns
    /\ name = PdfUpload
    /\ name \in DOMAIN fs
    /\ \E pages \in {convert_from_path(fs[name], MaskDpi)} :
       \E written \in {[n \in {PageName(k) : k \in 1..Len(pages)}
                            \cup {ImageMaskedName(PageName(k)) : k \in 1..Len(pages)} |->
                            pages[PageNumberOf(n)]]} :
          /\ fs' = Write(fs, written @@ (PdfMaskedName :> save_as_pdf(pages))
                                     @@ (PdfKeyName :> load_or_generate_valid_key(PdfKeyName)))
          /\ nextKey' = IF load_or_generate_valid_key(PdfKeyName) = nextKey
                        THEN nextKey + 1 ELSE nextKey
          /\ last' = [NoOp EXCEPT !.op = "mask_pdf", !.file = name, !.status = "success",
                                  !.key = load_or_generate_valid_key(PdfKeyName),
                                  !.out = pages]
    /\ runs' = runs + 1
    /\ UNCHANGED <<enabled, api_key, chatgpt_enabled, linesep, pool>>

\* decrypt_masked_pdf on the sizes: Fernet(key) raises on bytes that are no key,
\* else the masked PDF is rasterized and the records of each page are applied to
\* its raster: last.out holds the sizes of these rasters
decrypt_masked_pdf_pages(key) ==
    /\ PdfMaskedName \in DOMAIN fs
    /\ key \in UserKeys
    /\ \E result \in {[NoOp EXCEPT !.op = "restore_pdf", !.file = PdfMaskedName,
                                   !.key = key]} :
          last' = IF key = MalformedKey
                  THEN [result EXCEPT !.status = "error"]
                  ELSE [result EXCEPT
                           !.status = "success",
                           !.out = convert_from_path(fs[PdfMaskedName], RestoreDpi)]
    /\ UNCHANGED <<enabled, api_key, chatgpt_enabled, linesep, fs, nextKey, runs, pool>>

RasterNext ==
    \/ \E name \in DOMAIN fs : run_pdf_processing(name)
    \/ \E key \in UserKeys : decrypt_masked_pdf_pages(key)

RasterSpec == RasterInit /\ [][RasterNext]_vars

\* C28: the raster of every page at restore has the size, in pixels, of the raster
\* of the page that was masked, in which the boxes of its records were measured
RasterSizeKept ==
    (last.op = "restore_pdf" /\ last.status = "success") =>
        \A k \in 1..Len(last.out) : last.out[k] = fs[ImageMaskedName(PageName(k))]



(***************************************************************************)
(* The categories of a task come from the form field enabled_pii_categories *)
(* of the upload: upload_files stores json.loads of the field, whatever    *)
(* JSON value it is, in pii_config.json, and process_task hands it to the  *)
(* handlers.  A field holding a JSON number is written here as the set     *)
(* NumberConfig.                                                           *)
(***************************************************************************)
NumberConfig == {"5"}
ConfigValues == EnabledSets \cup {NumberConfig}

\* "NAMES" in enabled_categories, the first test of extract_from_dictionaries, raises
\* TypeError on a value that is no container
DictionaryLookupRaises(enabled_categories) == enabled_categories = NumberConfig

ConfigInit ==
    /\ enabled \in ConfigValues
    /\ api_key = FALSE
    /\ chatgpt_enabled = FALSE
    /\ linesep = <<"\n">>
    /\ \E doc \in Docs : fs = (Upload :> doc)
    /\ nextKey = 1
    /\ runs = 0
    /\ last = NoOp
    /\ pool = NoTasks

\* process_task on the text upload with the categories of pii_config.json:
\* run_text_processing; extract_all_pii guards the NER model and the ChatGPT call
\* with try, the rule extractors and the dictionary lookup run unguarded, so the
\* TypeError of the lookup leaves extract_all_pii and run_text_processing returns
\* an error: the key generated is dropped and no file is written
process_text_upload(name) ==
    IF DictionaryLookupRaises(enabled)
    THEN /\ runs < MaxRuns
         /\ name \in DOMAIN fs
         /\ Ext(name) = "txt"
         /\ last' = [NoOp EXCEPT !.op = "mask", !.file = name, !.json = JsonName(name),
                                 !.key = nextKey, !.status = "error",
                                 !.content = ReadText(fs[name])]
         /\ nextKey' = nextKey + 1
         /\ runs' = runs + 1
         /\ UNCHANGED <<enabled, api_key, chatgpt_enabled, linesep, fs, pool>>
    ELSE run_text_processing(name)

ConfigNext == \E name \in DOMAIN fs : process_text_upload(name)

ConfigSpec == ConfigInit /\ [][ConfigNext]_vars

\* C30: a masking run returns the merge of the candidates of its sources, whichever
\* of them failed: the run succeeds, and what it returns is the consensus of the
\* lists collected
DetectorFailureLocal ==
    (last.op = "mask" /\ last.file = Upload) =>
        /\ last.status = "success"
        /\ last.stage1 = combine_pii_results(last.presidio, last.ner, last.chatgpt)

====
